---- MODULE Spec2Model ----
(***************************************************************************)
(* LobsterNeighbors (pymatgen/io/lobster/lobsterenv.py): construction of   *)
(* the bond-based neighbour lists of a periodic structure.                 *)
(*                                                                         *)
(* Units.  Lengths and Cartesian coordinates are integers in 1e-5 Angstrom *)
(* (3.0 A = 300000).  Bond strengths (summed_icohp) are integers in 0.01   *)
(* eV.  perc_strength_icohp is an integer number of percent, so a product  *)
(* extremum * percentage is an integer in 1e-4 eV; every limit (lowerlimit,*)
(* upperlimit, noise_cutoff) is kept in 1e-4 eV.  The structure is a chain *)
(* periodic along x: a translation is <<n, 0, 0>>.                         *)
(***************************************************************************)
EXTENDS Integers, Sequences, FiniteSets, TLC

VARIABLES args, self, pc, raised, limit, extremum_based, idx, env, pool_left, result

vars == <<args, self, pc, raised, limit, extremum_based, idx, env, pool_left, result>>

(***************************************************************************)
(* Bounds of the model.                                                    *)
(***************************************************************************)
MaxBonds == 3

(***************************************************************************)
(* Python values: None, floats with +-inf.                                 *)
(***************************************************************************)
None == [k |-> "None", v |-> 0]

NegInf == [k |-> "-inf", v |-> 0]

PosInf == [k |-> "inf", v |-> 0]

Num(n) == [k |-> "num", v |-> n]

\* a <= b on floats (never called with None)
Leq(a, b) ==
    IF a.k = "-inf" \/ b.k = "inf" THEN TRUE
    ELSE IF a.k = "inf" \/ b.k = "-inf" THEN FALSE
    ELSE a.v <= b.v

FMin(a, b) == IF Leq(a, b) THEN a ELSE b

FMax(a, b) == IF Leq(a, b) THEN b ELSE a

Abs(n) == IF n < 0 THEN -n ELSE n

Range(s) == {s[i] : i \in DOMAIN s}

\* DelAt that forgets to delete
DelAt_Kept(s, i) == s

\* s without its element at position i (python: del s[i], 1-based here)
DelAt(s, i) == [k \in 1..(Len(s) - 1) |-> IF k < i THEN s[k] ELSE s[k + 1]]

(***************************************************************************)
(* Atom identifiers "Na1": element symbol followed by the 1-based ordinal. *)
(***************************************************************************)
AtomName(el, ordinal) == [head |-> el, tail |-> ordinal]

_split_string(s) == <<s.head, s.tail>>

_get_atomnumber(atomstring) == _split_string(atomstring)[2] - 1

(***************************************************************************)
(* The structures: sites 0..n-1 with element and position, lattice a.      *)
(***************************************************************************)
Chain2 == [species |-> <<"Na", "Cl">>, x |-> <<0, 280000>>, a |-> 600000]

Chain3 == [species |-> <<"Na", "O", "Na">>, x |-> <<0, 200000, 400000>>, a |-> 600000]

Structures == {Chain2, Chain3}

NSites(st) == Len(st.species)

Sites(st) == 0..(NSites(st) - 1)

\* Cartesian position of the image of site j in cell n
ImageX(st, j, n) == st.x[j + 1] + n * st.a

(***************************************************************************)
(* The bond records of the collection (Icohpcollection._icohplist).        *)
(* A record from site i to the image of site j in cell n, its length off   *)
(* the geometric distance by delta.                                        *)
(***************************************************************************)
Bond(st, i, j, n, delta, strength) ==
    [ _atom1 |-> AtomName(st.species[i + 1], i + 1),
      _atom2 |-> AtomName(st.species[j + 1], j + 1),
      _length |-> Abs(ImageX(st, j, n) - st.x[i + 1]) + delta,
      summed_icohp |-> strength,
      _translation |-> <<n, 0, 0>> ]

\* Chain2: a bond of exact length, the bond to the next image written from its
\* other end with a length within the tolerance, a bond of Na1 to its own image,
\* and a bond whose length fits no image.  Chain3: Na1-O2, Na3-Na1 (as long as
\* Na1-O2), a record of positive strength, and a record longer than 6.0.
BondChoices(st) ==
    IF st = Chain2
    THEN { Bond(st, 0, 1, 0, 0, -100),
           Bond(st, 1, 0, 1, 15, -30),
           Bond(st, 0, 0, 1, 0, -10),
           Bond(st, 0, 1, 0, 1000, -50) }
    ELSE { Bond(st, 0, 1, 0, 0, -100),
           Bond(st, 2, 0, 1, 0, -50),
           Bond(st, 1, 2, 0, 0, 20),
           Bond(st, 1, 1, 1, 10000, -120) }

\* sequences without repetition of at most n records; position k has label k
RECURSIVE BondLists(_, _)
BondLists(S, n) ==
    IF n = 0 THEN {<<>>}
    ELSE LET shorter == BondLists(S, n - 1)
         IN  shorter \cup { Append(l, b) : l \in { m \in shorter : Len(m) = n - 1 },
                                           b \in S }

ICOHPLists(st) ==
    { l \in BondLists(BondChoices(st), MaxBonds) :
        /\ Len(l) >= 1
        /\ \A p, q \in 1..Len(l) : p /= q => l[p] /= l[q] }

ValenceChoices(st) ==
    IF st = Chain2 THEN [1..2 -> {-1, 0, 1}]
    ELSE { <<0, 0, 0>>, <<1, -1, -1>>, <<1, -1, 1>>, <<-1, 1, 0>>, <<1, 1, 1>>, <<-1, 0, -1>> }

\* the bounds of a user-supplied limits pair, 1e-4 eV
LimitChoices ==
    { <<Num(-100000), Num(-2500)>>, <<None, Num(-2500)>>, <<Num(-100000), None>> }

(***************************************************************************)
(* Icohpcollection (pymatgen.electronic_structure.cohp), by its contract.  *)
(***************************************************************************)
\* extremum_icohpvalue(summed_spin_channels=True): min for ICOHPs, max otherwise
extremum_icohpvalue(icohplist, bonding) ==
    LET vals == { icohplist[k].summed_icohp : k \in DOMAIN icohplist }
    IN  IF bonding THEN CHOOSE m \in vals : \A w \in vals : m <= w
        ELSE CHOOSE m \in vals : \A w \in vals : m >= w

\* strength (0.01 eV) inside [lower, upper] (1e-4 eV); a bound None is no bound
InLimits(strength, lower, upper) ==
    /\ lower = None \/ Leq(lower, Num(strength * 100))
    /\ upper = None \/ Leq(Num(strength * 100), upper)

\* get_icohp_dict_of_site: the labels, in label order, of the records kept
get_icohp_dict_of_site(icohplist, site, maxbondlength, minsummedicohp, maxsummedicohp, only_bonds_to) ==
    LET touches(b) == site = b._atom1.tail - 1 \/ site = b._atom2.tail - 1
        other(b) == IF site = b._atom1.tail - 1 THEN b._atom2 ELSE b._atom1
        keep(k) == LET b == icohplist[k]
                   IN  /\ touches(b)
                       /\ b._length <= maxbondlength
                       /\ InLimits(b.summed_icohp, minsummedicohp, maxsummedicohp)
                       /\ only_bonds_to.k = "None" \/ other(b).head \in only_bonds_to.v
    IN  SelectSeq([k \in 1..Len(icohplist) |-> k], keep)

(***************************************************************************)
(* Structure (pymatgen.core), by its contract.                             *)
(***************************************************************************)
\* a PeriodicSite: species and Cartesian position (fractional = x / a)
PeriodicSite(st, j, n) == [species |-> st.species[j + 1], x |-> ImageX(st, j, n)]

\* neighbor.is_periodic_image(structure[isite])
is_periodic_image(st, neighbor, isite) ==
    /\ neighbor.species = st.species[isite + 1]
    /\ (neighbor.x - st.x[isite + 1]) % st.a = 0

\* the periodic images within r of the point pt, in the order of the search:
\* entries (site, distance, index, image)
get_sites_in_sphere(st, pt, r) ==
    LET n == NSites(st)
        cells == r \div st.a + 1
        all == [k \in 1..((2 * cells + 1) * n) |->
                  LET cell == ((k - 1) \div n) - cells
                      j == (k - 1) % n
                  IN  [site |-> PeriodicSite(st, j, cell),
                       dist |-> Abs(ImageX(st, j, cell) - pt),
                       index |-> j,
                       image |-> <<cell, 0, 0>>]]
    IN  SelectSeq(all, LAMBDA e : e.dist <= r)

\* InsertByDist that puts the entry before the entries at the same distance
RECURSIVE InsertByDist_BeforeEqual(_, _)
InsertByDist_BeforeEqual(sorted, e) ==
    IF sorted = <<>> THEN <<e>>
    ELSE IF sorted[Len(sorted)].dist < e.dist THEN Append(sorted, e)
    ELSE Append(InsertByDist_BeforeEqual(SubSeq(sorted, 1, Len(sorted) - 1), e),
                sorted[Len(sorted)])

\* sorted(seq, key=lambda x: x[1]): stable, ascending distance
RECURSIVE InsertByDist(_, _)
InsertByDist(sorted, e) ==
    IF sorted = <<>> THEN <<e>>
    ELSE IF sorted[Len(sorted)].dist <= e.dist THEN Append(sorted, e)
    ELSE Append(InsertByDist(SubSeq(sorted, 1, Len(sorted) - 1), e), sorted[Len(sorted)])

RECURSIVE SortedByDist(_)
SortedByDist(seq) ==
    IF seq = <<>> THEN <<>>
    ELSE InsertByDist(SortedByDist(SubSeq(seq, 1, Len(seq) - 1)), seq[Len(seq)])

\* int(round(num / den)), den > 0
Round(num, den) == (2 * num + den) \div (2 * den)

(***************************************************************************)
(* LobsterNeighbors: the condition policies.                               *)
(***************************************************************************)
maxbondlength == 600000

\* ConditionHolds with the signs of condition 1 not strict
ConditionHolds_NotStrict(additional_condition, icohp, valences) ==
    LET val1 == valences[_get_atomnumber(icohp._atom1) + 1]
        val2 == valences[_get_atomnumber(icohp._atom2) + 1]
        el1 == icohp._atom1.head
        el2 == icohp._atom2.head
    IN  CASE additional_condition = 0 -> TRUE
          [] additional_condition = 1 -> (val1 <= 0 /\ 0 <= val2) \/ (val2 <= 0 /\ 0 <= val1)
          [] additional_condition = 2 -> el1 /= el2
          [] additional_condition = 3 ->
                 ((val1 < 0 /\ 0 < val2) \/ (val2 < 0 /\ 0 < val1)) /\ el1 /= el2
          [] additional_condition = 4 -> el1 = "O" \/ el2 = "O"
          [] additional_condition = 5 -> (val1 > 0 /\ val2 > 0) \/ (val1 < 0 /\ val2 < 0)
          [] additional_condition = 6 -> val1 > 0 /\ val2 > 0

\* ConditionHolds with condition 3 forgetting the test of the elements
ConditionHolds_NoElementTest(additional_condition, icohp, valences) ==
    LET val1 == valences[_get_atomnumber(icohp._atom1) + 1]
        val2 == valences[_get_atomnumber(icohp._atom2) + 1]
        el1 == icohp._atom1.head
        el2 == icohp._atom2.head
    IN  CASE additional_condition = 0 -> TRUE
          [] additional_condition = 1 -> (val1 < 0 /\ 0 < val2) \/ (val2 < 0 /\ 0 < val1)
          [] additional_condition = 2 -> el1 /= el2
          [] additional_condition = 3 -> (val1 < 0 /\ 0 < val2) \/ (val2 < 0 /\ 0 < val1)
          [] additional_condition = 4 -> el1 = "O" \/ el2 = "O"
          [] additional_condition = 5 -> (val1 > 0 /\ val2 > 0) \/ (val1 < 0 /\ val2 < 0)
          [] additional_condition = 6 -> val1 > 0 /\ val2 > 0

\* the test of additional_condition on one record (val1, val2 are read only
\* under the conditions 1, 3, 5 and 6)
ConditionHolds(additional_condition, icohp, valences) ==
    LET atomnr1 == _get_atomnumber(icohp._atom1)
        atomnr2 == _get_atomnumber(icohp._atom2)
        val1 == valences[atomnr1 + 1]
        val2 == valences[atomnr2 + 1]
        el1 == icohp._atom1.head
        el2 == icohp._atom2.head
    IN  CASE additional_condition = 0 -> TRUE
          [] additional_condition = 1 -> (val1 < 0 /\ 0 < val2) \/ (val2 < 0 /\ 0 < val1)
          [] additional_condition = 2 -> el1 /= el2
          [] additional_condition = 3 ->
                 ((val1 < 0 /\ 0 < val2) \/ (val2 < 0 /\ 0 < val1)) /\ el1 /= el2
          [] additional_condition = 4 -> el1 = "O" \/ el2 = "O"
          [] additional_condition = 5 -> (val1 > 0 /\ val2 > 0) \/ (val1 < 0 /\ val2 < 0)
          [] additional_condition = 6 -> val1 > 0 /\ val2 > 0

\* _find_relevant_atoms_additional_condition that tests the second atom of a
\* record with `if` instead of `elif`: a record of isite with itself is entered
\* for both of its ends
_find_relevant_atoms_both_ends(icohplist, valences, isite, icohps, additional_condition) ==
    LET atomnr1(k) == _get_atomnumber(icohplist[k]._atom1)
        atomnr2(k) == _get_atomnumber(icohplist[k]._atom2)
        taken(k) == /\ ConditionHolds(additional_condition, icohplist[k], valences)
                    /\ atomnr1(k) = isite \/ atomnr2(k) = isite
        once == SelectSeq(icohps, taken)
        twice(k) == atomnr1(k) = isite /\ atomnr2(k) = isite
        \* the positions of the entries: a record entered twice takes two
        width(p) == IF twice(once[p]) THEN 2 ELSE 1
        start == [p \in DOMAIN once |->
                     p + Cardinality({q \in 1..(p - 1) : twice(once[q])})]
        total == IF once = <<>> THEN 0 ELSE start[Len(once)] + width(Len(once)) - 1
        keys == [i \in 1..total |->
                    once[CHOOSE p \in DOMAIN once : start[p] <= i /\ i < start[p] + width(p)]]
    IN  [ keys_from_ICOHPs |-> keys,
          lengths_from_ICOHPs |-> [p \in DOMAIN keys |-> icohplist[keys[p]]._length],
          neighbors_from_ICOHPs |->
              [p \in DOMAIN keys |-> IF atomnr1(keys[p]) = isite THEN atomnr2(keys[p])
                                     ELSE atomnr1(keys[p])],
          icohps_from_ICOHPs |-> [p \in DOMAIN keys |-> icohplist[keys[p]].summed_icohp] ]

\* _find_relevant_atoms_additional_condition that only takes the records
\* written with isite as their first atom
_find_relevant_atoms_first_atom_only(icohplist, valences, isite, icohps, additional_condition) ==
    LET atomnr1(k) == _get_atomnumber(icohplist[k]._atom1)
        atomnr2(k) == _get_atomnumber(icohplist[k]._atom2)
        taken(k) == /\ ConditionHolds(additional_condition, icohplist[k], valences)
                    /\ atomnr1(k) = isite
        keys == SelectSeq(icohps, taken)
    IN  [ keys_from_ICOHPs |-> keys,
          lengths_from_ICOHPs |-> [p \in DOMAIN keys |-> icohplist[keys[p]]._length],
          neighbors_from_ICOHPs |-> [p \in DOMAIN keys |-> atomnr2(keys[p])],
          icohps_from_ICOHPs |-> [p \in DOMAIN keys |-> icohplist[keys[p]].summed_icohp] ]

\* the parallel lists (keys, lengths, neighbors, icohps) of the records of
\* icohps (labels into icohplist) that touch isite and pass the condition
_find_relevant_atoms_additional_condition(icohplist, valences, isite, icohps, additional_condition) ==
    LET atomnr1(k) == _get_atomnumber(icohplist[k]._atom1)
        atomnr2(k) == _get_atomnumber(icohplist[k]._atom2)
        taken(k) == /\ ConditionHolds(additional_condition, icohplist[k], valences)
                    /\ atomnr1(k) = isite \/ atomnr2(k) = isite
        keys == SelectSeq(icohps, taken)
    IN  [ keys_from_ICOHPs |-> keys,
          lengths_from_ICOHPs |-> [p \in DOMAIN keys |-> icohplist[keys[p]]._length],
          neighbors_from_ICOHPs |->
              [p \in DOMAIN keys |-> IF atomnr1(keys[p]) = isite THEN atomnr2(keys[p])
                                     ELSE atomnr1(keys[p])],
          icohps_from_ICOHPs |-> [p \in DOMAIN keys |-> icohplist[keys[p]].summed_icohp] ]

(***************************************************************************)
(* LobsterNeighbors: the limits.                                           *)
(***************************************************************************)
Bonding(a) == ~a.are_coops /\ ~a.are_cobis

\* the test of _get_limit_from_extremum on one record of the collection, for
\* the conditions 1 to 6
ExtremumCondition(additional_condition, value, valences) ==
    LET atomnr1 == _get_atomnumber(value._atom1)
        atomnr2 == _get_atomnumber(value._atom2)
        val1 == valences[atomnr1 + 1]
        val2 == valences[atomnr2 + 1]
    IN  CASE additional_condition = 1 -> (val1 < 0 /\ 0 < val2) \/ (val2 < 0 /\ 0 < val1)
          [] additional_condition = 2 -> value._atom1.head /= value._atom2.head
          [] additional_condition = 3 ->
                 /\ (val1 < 0 /\ 0 < val2) \/ (val2 < 0 /\ 0 < val1)
                 /\ value._atom1.head /= value._atom2.head
          [] additional_condition = 4 -> value._atom1.head = "O" \/ value._atom2.head = "O"
          [] additional_condition = 5 -> (val1 > 0 /\ val2 > 0) \/ (val1 < 0 /\ val2 < 0)
          [] additional_condition = 6 -> val1 > 0 /\ val2 > 0

\* ExtremumList that falls back on the whole collection when no record passes
ExtremumList_Fallback(icohplist, valences, additional_condition) ==
    LET sel == SelectSeq([k \in 1..Len(icohplist) |-> k],
                         LAMBDA k : ExtremumCondition(additional_condition, icohplist[k], valences))
    IN  IF sel = <<>> THEN [k \in DOMAIN icohplist |-> icohplist[k].summed_icohp]
        ELSE [p \in DOMAIN sel |-> icohplist[sel[p]].summed_icohp]

\* list_icohps of _get_limit_from_extremum under the conditions 1 to 6
ExtremumList(icohplist, valences, additional_condition) ==
    LET sel == SelectSeq([k \in 1..Len(icohplist) |-> k],
                         LAMBDA k : ExtremumCondition(additional_condition, icohplist[k], valences))
    IN  [p \in DOMAIN sel |-> icohplist[sel[p]].summed_icohp]

\* _adapt_extremum_to_add_cond that takes the sum of the list for its extremum
_adapt_extremum_summed(a, list_icohps, percentage) ==
    LET RECURSIVE total(_)
        total(l) == IF l = <<>> THEN 0 ELSE Head(l) + total(Tail(l))
    IN  total(list_icohps) * percentage

\* which_extr(list_icohps) * percentage; the list is not empty
_adapt_extremum_to_add_cond(a, list_icohps, percentage) ==
    LET vals == Range(list_icohps)
        which_extr == IF Bonding(a) THEN CHOOSE m \in vals : \A w \in vals : m <= w
                      ELSE CHOOSE m \in vals : \A w \in vals : m >= w
    IN  which_extr * percentage

\* ExtremumBased that never adapts to the condition
ExtremumBased_NotAdapted(a, valences) ==
    extremum_icohpvalue(a.icohplist, Bonding(a)) * a.perc_strength_icohp

\* extremum_based of _get_limit_from_extremum, 1e-4 eV
ExtremumBased(a, valences) ==
    IF ~a.adapt_extremum_to_add_cond \/ a.additional_condition = 0
    THEN extremum_icohpvalue(a.icohplist, Bonding(a)) * a.perc_strength_icohp
    ELSE _adapt_extremum_to_add_cond(a,
             ExtremumList(a.icohplist, valences, a.additional_condition),
             a.perc_strength_icohp)

\* LimitFromExtremum with the noise cutoff of an ICOHP window not negated
LimitFromExtremum_NoiseSign(a, extremum) ==
    IF Bonding(a)
    THEN <<NegInf, IF a.noise_cutoff /= None
                   THEN FMin(Num(extremum), a.noise_cutoff)
                   ELSE Num(extremum)>>
    ELSE <<IF a.noise_cutoff /= None
           THEN FMax(Num(extremum), a.noise_cutoff)
           ELSE Num(extremum), PosInf>>

\* the pair (lowerlimit, upperlimit) returned for a given extremum_based
LimitFromExtremum(a, extremum) ==
    IF Bonding(a)
    THEN <<NegInf, IF a.noise_cutoff /= None
                   THEN FMin(Num(extremum), Num(-a.noise_cutoff.v))
                   ELSE Num(extremum)>>
    ELSE <<IF a.noise_cutoff /= None
           THEN FMax(Num(extremum), a.noise_cutoff)
           ELSE Num(extremum), PosInf>>

_get_limit_from_extremum(a, valences) == LimitFromExtremum(a, ExtremumBased(a, valences))

(***************************************************************************)
(* LobsterNeighbors._find_environments: one pass of the loop over sites.   *)
(***************************************************************************)
\* IsClose with a relative tolerance of 1e-2
IsClose_Loose(dist, d) == Abs(dist - d) <= (Abs(d) + 10) \div 100

\* np.isclose(dist, d, rtol=1e-4), atol = 1e-8: |dist - d| <= 1e-8 + 1e-4 * |d|
IsClose(dist, d) == Abs(dist - d) <= (Abs(d) + 10) \div 10000

\* FirstMatch that does not compare the atom of the candidate
FirstMatch_AnyAtom(pool, dist_here, index_here2) ==
    LET hits == { idist \in DOMAIN pool : IsClose(pool[idist].dist, dist_here) }
    IN  IF hits = {} THEN 0 ELSE CHOOSE h \in hits : \A g \in hits : h <= g

\* the first position of the pool that matches the search result, 0 if none
FirstMatch(pool, dist_here, index_here2) ==
    LET hits == { idist \in DOMAIN pool :
                    /\ IsClose(pool[idist].dist, dist_here)
                    /\ pool[idist].neighbor = index_here2 }
    IN  IF hits = {} THEN 0 ELSE CHOOSE h \in hits : \A g \in hits : h <= g

\* the loop over neighbors_by_distance from position ineigh on
RECURSIVE MatchLoop(_, _, _, _)
MatchLoop(st, found, ineigh, acc) ==
    IF ineigh > Len(found) THEN acc
    ELSE LET e == found[ineigh]
             idist == FirstMatch(acc.pool, e.dist, e.index)
             site_here_x == e.site.x % st.a
         IN  IF idist = 0 THEN MatchLoop(st, found, ineigh + 1, acc)
             ELSE MatchLoop(st, found, ineigh + 1,
                      [ _list_neighsite |-> Append(acc._list_neighsite, e.site),
                        _list_neighisite |-> Append(acc._list_neighisite, e.index),
                        _neigh_coords |-> Append(acc._neigh_coords,
                                                 site_here_x + e.image[1] * st.a),
                        pool |-> DelAt(acc.pool, idist) ])

\* the lists appended for site idx, and what is left of the copied pool
FindEnvironment(a, valences, lowerlimit, upperlimit, isite) ==
    LET st == a.structure
        icohps == get_icohp_dict_of_site(a.icohplist, isite, maxbondlength,
                                         lowerlimit, upperlimit, a.only_bonds_to)
        conds == _find_relevant_atoms_additional_condition(
                     a.icohplist, valences, isite, icohps, a.additional_condition)
        lens == conds.lengths_from_ICOHPs
        r == (CHOOSE m \in Range(lens) : \A w \in Range(lens) : m >= w) + 50000
        found == SortedByDist(get_sites_in_sphere(st, st.x[isite + 1], r))
        start == [ _list_neighsite |-> <<>>, _list_neighisite |-> <<>>,
                   _neigh_coords |-> <<>>,
                   pool |-> [p \in DOMAIN lens |->
                               [neighbor |-> conds.neighbors_from_ICOHPs[p],
                                dist |-> lens[p]]] ]
        res == IF Len(conds.neighbors_from_ICOHPs) > 0
               THEN MatchLoop(st, found, 1, start)
               ELSE start
    IN  [ neighsite |-> res._list_neighsite,
          neighisite |-> res._list_neighisite,
          coords |-> res._neigh_coords,
          icohps |-> conds.icohps_from_ICOHPs,
          lengths |-> conds.lengths_from_ICOHPs,
          keys |-> conds.keys_from_ICOHPs,
          pool |-> res.pool ]

\* the entry of sg_list for the neighbor at position ineighbor of site ineighbors
SgEntry(st, e, ineighbors, ineighbor) ==
    LET neighbor == e.list_neighsite[ineighbors][ineighbor]
        rep == CHOOSE isite \in Sites(st) :
                   /\ is_periodic_image(st, neighbor, isite)
                   /\ \A other \in Sites(st) :
                          is_periodic_image(st, neighbor, other) => isite <= other
    IN  [ site |-> neighbor,
          image |-> <<Round(neighbor.x - st.x[rep + 1], st.a), 0, 0>>,
          weight |-> 1,
          edge_properties |->
              [ ICOHP |-> e.list_icohps[ineighbors][ineighbor],
                bond_length |-> e.list_lengths[ineighbors][ineighbor],
                bond_label |-> e.list_keys[ineighbors][ineighbor] ],
          site_index |-> rep ]

EmptyEnv ==
    [ list_icohps |-> <<>>, list_keys |-> <<>>, list_lengths |-> <<>>,
      list_neighisite |-> <<>>, list_neighsite |-> <<>>, list_coords |-> <<>> ]

(***************************************************************************)
(* The arguments of the constructor.                                       *)
(***************************************************************************)
List(v) == [k |-> "list", v |-> v]

\* what BVAnalyzer.get_valences can return for the structure (None: ValueError)
BVChoices(st) == {None, List([i \in 1..NSites(st) |-> IF i = 1 THEN 1 ELSE -1])}

\* no query method has been called yet
NoCall == [call |-> "", input |-> <<>>, raised |-> "", value |-> None, examined |-> <<>>]

LimitArgs ==
    { [limits |-> None, perc_strength_icohp |-> pn[1], noise_cutoff |-> pn[2],
       adapt_extremum_to_add_cond |-> ad] :
         pn \in {<<15, Num(1000)>>, <<100, None>>}, ad \in BOOLEAN }
    \cup
    { [limits |-> List(l), perc_strength_icohp |-> 15, noise_cutoff |-> Num(1000),
       adapt_extremum_to_add_cond |-> FALSE] : l \in LimitChoices }

Init ==
    /\ \E st \in Structures :
       \E icohplist \in ICOHPLists(st) :
       \E kind \in {<<FALSE, FALSE>>, <<TRUE, FALSE>>, <<FALSE, TRUE>>} :
       \E valences \in {None} \cup { List(v) : v \in ValenceChoices(st) } :
       \E additional_condition \in 0..6 :
       \E la \in LimitArgs :
          args = [ structure |-> st,
                   icohplist |-> icohplist,
                   are_coops |-> kind[1],
                   are_cobis |-> kind[2],
                   valences |-> valences,
                   limits |-> la.limits,
                   additional_condition |-> additional_condition,
                   only_bonds_to |-> None,
                   perc_strength_icohp |-> la.perc_strength_icohp,
                   noise_cutoff |-> la.noise_cutoff,
                   adapt_extremum_to_add_cond |-> la.adapt_extremum_to_add_cond ]
    /\ self = ("additional_condition" :> args.additional_condition)
    /\ pc = "valences"
    /\ raised = ""
    /\ limit = <<None, None>>
    /\ extremum_based = None
    /\ idx = 0
    /\ env = EmptyEnv
    /\ pool_left = <<>>
    /\ result = NoCall

(***************************************************************************)
(* __init__: the valences, then self.lowerlimit and self.upperlimit.       *)
(***************************************************************************)
\* NeedsValences without condition 6
NeedsValences_Not6(additional_condition) == additional_condition \in {1, 3, 5}

NeedsValences(additional_condition) == additional_condition \in {1, 3, 5, 6}

\* np.allclose(self.valences or [], np.zeros_like(self.valences))
AllZero(valences) ==
    valences.k = "list" /\ \A i \in DOMAIN valences.v : valences.v[i] = 0

\* self.lowerlimit, self.upperlimit = limits
StoredLimits(limits) ==
    IF limits.k = "None"
    THEN ("lowerlimit" :> None) @@ ("upperlimit" :> None)
    ELSE ("lowerlimit" :> limits.v[1]) @@ ("upperlimit" :> limits.v[2])

ReadValences ==
    /\ pc = "valences"
    /\ \E v \in (IF args.valences.k = "None" THEN BVChoices(args.structure)
                 ELSE {args.valences}) :
          IF v.k = "None" /\ NeedsValences(args.additional_condition)
          THEN /\ self' = ("valences" :> v) @@ self
               /\ raised' = "ValueError: Valences cannot be assigned"
               /\ pc' = "raised"
          ELSE IF AllZero(v) /\ NeedsValences(args.additional_condition)
          THEN /\ self' = ("valences" :> v) @@ self
               /\ raised' = "ValueError: All valences are equal to 0"
               /\ pc' = "raised"
          ELSE \/ /\ self' = StoredLimits(args.limits) @@ ("valences" :> v) @@ self
                  /\ raised' = raised
                  /\ pc' = "evaluate"
               \* np.zeros_like(None) is an array of objects: np.allclose either
               \* compares it or rejects its type, depending on the numpy in use
               \/ /\ v.k = "None"
                  /\ self' = ("valences" :> v) @@ self
                  /\ raised' = "TypeError: ufunc 'isfinite' not supported for the input types"
                  /\ pc' = "raised"
    /\ UNCHANGED <<args, limit, extremum_based, idx, env, pool_left, result>>

(***************************************************************************)
(* _evaluate_ce: the limits used for the evaluation.                       *)
(***************************************************************************)
\* OneLimitMissing that only sees a missing upper limit
OneLimitMissing_UpperOnly(lowerlimit, upperlimit) == upperlimit = None

\* elif upperlimit is None or lowerlimit is None (not both: tested before)
OneLimitMissing(lowerlimit, upperlimit) == upperlimit = None \/ lowerlimit = None

\* GetLimits that stores the window it derived in the object
GetLimits_WritesBack ==
    /\ pc = "evaluate"
    /\ LET lowerlimit == self.lowerlimit
           upperlimit == self.upperlimit
           adapting == args.adapt_extremum_to_add_cond /\ args.additional_condition /= 0
       IN  IF lowerlimit = None /\ upperlimit = None
           THEN IF adapting /\ ExtremumList(args.icohplist, self.valences.v,
                                            args.additional_condition) = <<>>
                THEN /\ raised' = "ValueError: min() arg is an empty sequence"
                     /\ pc' = "raised"
                     /\ UNCHANGED <<limit, extremum_based, self>>
                ELSE /\ extremum_based' = Num(ExtremumBased(args, self.valences.v))
                     /\ limit' = _get_limit_from_extremum(args, self.valences.v)
                     /\ pc' = "find"
                     /\ raised' = raised
                     /\ self' = [ self EXCEPT
                                    !["lowerlimit"] = _get_limit_from_extremum(args, self.valences.v)[1],
                                    !["upperlimit"] = _get_limit_from_extremum(args, self.valences.v)[2] ]
           ELSE IF OneLimitMissing(lowerlimit, upperlimit)
           THEN /\ raised' = "ValueError: Please give two limits or leave them both at None"
                /\ pc' = "raised"
                /\ UNCHANGED <<limit, extremum_based, self>>
           ELSE /\ limit' = <<lowerlimit, upperlimit>>
                /\ pc' = "find"
                /\ UNCHANGED <<raised, extremum_based, self>>
    /\ UNCHANGED <<args, idx, env, pool_left, result>>

GetLimits ==
    /\ pc = "evaluate"
    /\ LET lowerlimit == self.lowerlimit
           upperlimit == self.upperlimit
           adapting == args.adapt_extremum_to_add_cond /\ args.additional_condition /= 0
       IN  IF lowerlimit = None /\ upperlimit = None
           THEN IF adapting /\ ExtremumList(args.icohplist, self.valences.v,
                                            args.additional_condition) = <<>>
                THEN /\ raised' = "ValueError: min() arg is an empty sequence"
                     /\ pc' = "raised"
                     /\ UNCHANGED <<limit, extremum_based>>
                ELSE /\ extremum_based' = Num(ExtremumBased(args, self.valences.v))
                     /\ limit' = _get_limit_from_extremum(args, self.valences.v)
                     /\ pc' = "find"
                     /\ raised' = raised
           ELSE IF OneLimitMissing(lowerlimit, upperlimit)
           THEN /\ raised' = "ValueError: Please give two limits or leave them both at None"
                /\ pc' = "raised"
                /\ UNCHANGED <<limit, extremum_based>>
           ELSE /\ limit' = <<lowerlimit, upperlimit>>
                /\ pc' = "find"
                /\ UNCHANGED <<raised, extremum_based>>
    /\ UNCHANGED <<args, self, idx, env, pool_left, result>>

(***************************************************************************)
(* _find_environments: the loop body for site idx.                         *)
(***************************************************************************)
\* FindEnvironments that lets the deletions of the matching loop act on the
\* lengths stored for the previous site
FindEnvironments_WritesPrevious ==
    /\ pc = "find"
    /\ idx < NSites(args.structure)
    /\ LET f == FindEnvironment(args, self.valences.v, limit[1], limit[2], idx)
           e == IF idx >= 1 /\ Len(f.pool) < Len(f.lengths)
                THEN [ env EXCEPT !.list_lengths[idx] = [p \in DOMAIN f.pool |-> f.pool[p].dist] ]
                ELSE env
       IN  /\ env' = [ list_icohps |-> Append(e.list_icohps, f.icohps),
                       list_keys |-> Append(e.list_keys, f.keys),
                       list_lengths |-> Append(e.list_lengths, f.lengths),
                       list_neighisite |-> Append(e.list_neighisite, f.neighisite),
                       list_neighsite |-> Append(e.list_neighsite, f.neighsite),
                       list_coords |-> Append(e.list_coords, f.coords) ]
           /\ pool_left' = Append(pool_left, f.pool)
    /\ idx' = idx + 1
    /\ UNCHANGED <<args, self, pc, raised, limit, extremum_based, result>>

FindEnvironments ==
    /\ pc = "find"
    /\ idx < NSites(args.structure)
    /\ LET f == FindEnvironment(args, self.valences.v, limit[1], limit[2], idx)
       IN  /\ env' = [ list_icohps |-> Append(env.list_icohps, f.icohps),
                       list_keys |-> Append(env.list_keys, f.keys),
                       list_lengths |-> Append(env.list_lengths, f.lengths),
                       list_neighisite |-> Append(env.list_neighisite, f.neighisite),
                       list_neighsite |-> Append(env.list_neighsite, f.neighsite),
                       list_coords |-> Append(env.list_coords, f.coords) ]
           /\ pool_left' = Append(pool_left, f.pool)
    /\ idx' = idx + 1
    /\ UNCHANGED <<args, self, pc, raised, limit, extremum_based, result>>

(***************************************************************************)
(* _evaluate_ce: the results are stored and sg_list is built.              *)
(***************************************************************************)
StoreResults ==
    /\ pc = "find"
    /\ idx = NSites(args.structure)
    /\ self' = [ n \in {"list_icohps", "list_keys", "list_lengths", "list_neighisite",
                        "list_neighsite", "list_coords"} |-> env[n] ]
               @@ ("sg_list" :>
                     [ s \in DOMAIN env.list_neighsite |->
                         [ k \in DOMAIN env.list_neighsite[s] |->
                             SgEntry(args.structure, env, s, k) ] ])
               @@ self
    /\ pc' = "done"
    /\ UNCHANGED <<args, raised, limit, extremum_based, idx, env, pool_left, result>>

(***************************************************************************)
(* The query methods of the constructed object.  A call leaves its outcome *)
(* in result: the name of the method, its arguments, the exception raised  *)
(* ("" when the call returns), the value returned, and for every site that *)
(* get_info_icohps_between_neighbors went through, the pairs of positions  *)
(* of its neighbor list that the call examined, in order, with the site    *)
(* whose records were queried and the labels counted for each pair.        *)
(***************************************************************************)
Outcome(call, input, exception, value, examined) ==
    [call |-> call, input |-> input, raised |-> exception, value |-> value,
     examined |-> examined]

\* get_nn_info(structure, n, use_weights); structure_len is len(structure)
get_nn_info(obj, st, structure_len, n, use_weights) ==
    IF use_weights
    THEN [raised |-> "ValueError: LobsterEnv cannot use weights", value |-> None]
    ELSE IF structure_len /= NSites(st)
    THEN [raised |-> "ValueError: Length of structure and LobsterNeighbors differ",
          value |-> None]
    ELSE [raised |-> "", value |-> List(obj.sg_list[n + 1])]

\* if isites is None: the cations (valence >= 0.0) or every site
QueriedSites(st, valences, isites, onlycation_isites) ==
    IF isites.k = "None"
    THEN IF onlycation_isites
         THEN SelectSeq([i \in 1..NSites(st) |-> i - 1],
                        LAMBDA i : valences.v[i + 1] >= 0)
         ELSE [i \in 1..NSites(st) |-> i - 1]
    ELSE isites.v

NoBonds ==
    [ summed_icohps |-> 0, list_icohps |-> <<>>, number_bonds |-> 0,
      labels |-> <<>>, atoms |-> <<>>, final_isites |-> <<>>, examined |-> <<>> ]

\* AddBond that forgets number_bonds += 1
AddBond_NotCounted(acc, icohplist, label, icohpsum) ==
    [ acc EXCEPT !.summed_icohps = @ + icohpsum,
                 !.list_icohps = Append(@, icohpsum),
                 !.labels = Append(@, label),
                 !.atoms = Append(@, <<icohplist[label]._atom1, icohplist[label]._atom2>>) ]

\* the block that records one bond: sum, strength, label, atom pair, count
AddBond(acc, icohplist, label, icohpsum) ==
    [ acc EXCEPT !.summed_icohps = @ + icohpsum,
                 !.list_icohps = Append(@, icohpsum),
                 !.number_bonds = @ + 1,
                 !.labels = Append(@, label),
                 !.atoms = Append(@, <<icohplist[label]._atom1, icohplist[label]._atom2>>) ]

ICOHPNeighborsInfo(total_icohp, list_icohps, n_bonds, labels, atoms, central_isites) ==
    [ total_icohp |-> total_icohp, list_icohps |-> list_icohps, n_bonds |-> n_bonds,
      labels |-> labels, atoms |-> atoms, central_isites |-> central_isites ]

\* ZipLoop that stops at the number of neighbors resolved for the site
RECURSIVE ZipLoop_ResolvedOnly(_, _, _, _, _)
ZipLoop_ResolvedOnly(obj, icohplist, ival, k, acc) ==
    LET keys == obj.list_keys[ival + 1]
        icohps == obj.list_icohps[ival + 1]
    IN  IF k > Len(keys) \/ k > Len(obj.list_neighsite[ival + 1]) THEN acc
        ELSE ZipLoop_ResolvedOnly(obj, icohplist, ival, k + 1,
                     [ AddBond(acc, icohplist, keys[k], icohps[k])
                         EXCEPT !.final_isites = Append(@, ival) ])

\* for keys, icohpsum in zip(self.list_keys[ival], self.list_icohps[ival]), from k on
RECURSIVE ZipLoop(_, _, _, _, _)
ZipLoop(obj, icohplist, ival, k, acc) ==
    LET keys == obj.list_keys[ival + 1]
        icohps == obj.list_icohps[ival + 1]
    IN  IF k > Len(keys) \/ k > Len(icohps) THEN acc
        ELSE ZipLoop(obj, icohplist, ival, k + 1,
                     [ AddBond(acc, icohplist, keys[k], icohps[k])
                         EXCEPT !.final_isites = Append(@, ival) ])

\* SiteLoop that goes through isites as listed; ival is the position in isites
RECURSIVE SiteLoop_AsListed(_, _, _, _, _, _)
SiteLoop_AsListed(obj, st, icohplist, isites, ival, acc) ==
    IF ival >= Len(isites) THEN acc
    ELSE SiteLoop_AsListed(obj, st, icohplist, isites, ival + 1,
                           ZipLoop(obj, icohplist, isites[ival + 1], 1, acc))

\* for ival, _site in enumerate(self.structure): if ival in isites, from ival on
RECURSIVE SiteLoop(_, _, _, _, _, _)
SiteLoop(obj, st, icohplist, isites, ival, acc) ==
    IF ival >= NSites(st) THEN acc
    ELSE SiteLoop(obj, st, icohplist, isites, ival + 1,
                  IF ival \in Range(isites)
                  THEN ZipLoop(obj, icohplist, ival, 1, acc)
                  ELSE acc)

get_info_icohps_to_neighbors(obj, a, isites, onlycation_isites) ==
    IF obj.valences.k = "None" /\ onlycation_isites
    THEN [raised |-> "ValueError: No valences are provided", value |-> None]
    ELSE LET sites == QueriedSites(a.structure, obj.valences, isites, onlycation_isites)
             acc == SiteLoop(obj, a.structure, a.icohplist, sites, 0, NoBonds)
         IN  [ raised |-> "",
               value |-> ICOHPNeighborsInfo(acc.summed_icohps, acc.list_icohps,
                                            acc.number_bonds, acc.labels, acc.atoms,
                                            List(acc.final_isites)) ]

\* _determine_unit_cell(site): floor(round(frac, 4)) of each fractional coordinate
_determine_unit_cell(st, site) ==
    LET cell == site.x \div st.a
        rest == site.x % st.a
    IN  <<IF st.a - rest <= st.a \div 20000 THEN cell + 1 ELSE cell, 0, 0>>

\* the index of the site of the structure that the given site is an image of
_get_original_site(st, site) ==
    CHOOSE isite \in Sites(st) :
        /\ is_periodic_image(st, site, isite)
        /\ \A other \in Sites(st) : is_periodic_image(st, site, other) => isite <= other

\* PairExamined that also takes the pair in the reverse order
PairExamined_BothOrders(in_site, in_site2) == in_site /= in_site2

\* if in_site < in_site2
PairExamined(in_site, in_site2) == in_site < in_site2

\* the positions (in_site, in_site2) of the double loop over the n neighbors of a
\* site that pass the test, in the order of the loop
ExaminedPairs(n) ==
    SelectSeq([k \in 1..(n * n) |-> <<(k - 1) \div n, (k - 1) % n>>],
              LAMBDA p : PairExamined(p[1], p[2]))

\* PairTranslation that always takes the first neighbor less the second
PairTranslation_ByPosition(st, n_site, n_site2) ==
    LET unitcell1 == _determine_unit_cell(st, n_site)
        unitcell2 == _determine_unit_cell(st, n_site2)
    IN  <<unitcell1[1] - unitcell2[1], unitcell1[2] - unitcell2[2],
          unitcell1[3] - unitcell2[3]>>

\* the translation looked for between the two neighbors
PairTranslation(st, n_site, n_site2) ==
    LET unitcell1 == _determine_unit_cell(st, n_site)
        unitcell2 == _determine_unit_cell(st, n_site2)
        index_n_site == _get_original_site(st, n_site)
        index_n_site2 == _get_original_site(st, n_site2)
        minus(u, v) == <<u[1] - v[1], u[2] - v[2], u[3] - v[3]>>
    IN  IF index_n_site < index_n_site2 THEN minus(unitcell1, unitcell2)
        ELSE IF index_n_site2 < index_n_site THEN minus(unitcell2, unitcell1)
        ELSE minus(unitcell1, unitcell2)

\* IcohpLoop that never sets done
RECURSIVE IcohpLoop_AllMatches(_, _, _, _, _, _, _, _)
IcohpLoop_AllMatches(icohplist, icohps, k, index_n_site, index_n_site2, translation, done, acc) ==
    IF k > Len(icohps) THEN acc
    ELSE LET label == icohps[k]
             icohp == icohplist[label]
             atomnr1 == _get_atomnumber(icohp._atom1)
             atomnr2 == _get_atomnumber(icohp._atom2)
             t == icohp._translation
             icohp_trans == <<-t[1], -t[2], -t[3]>>
             ends == \/ index_n_site = atomnr1 /\ index_n_site2 = atomnr2
                     \/ index_n_site = atomnr2 /\ index_n_site2 = atomnr1
             added == AddBond(acc, icohplist, label, icohp.summed_icohp)
         IN  IF ends /\ atomnr1 /= atomnr2
             THEN IcohpLoop_AllMatches(icohplist, icohps, k + 1, index_n_site,
                                       index_n_site2, translation, done,
                                       IF translation = t THEN added ELSE acc)
             ELSE IF ends /\ (translation = t \/ translation = icohp_trans)
             THEN IcohpLoop_AllMatches(icohplist, icohps, k + 1, index_n_site,
                                       index_n_site2, translation, done, added)
             ELSE IcohpLoop_AllMatches(icohplist, icohps, k + 1, index_n_site,
                                       index_n_site2, translation, done, acc)

\* for icohp in icohps.values(), from position k of the labels on
RECURSIVE IcohpLoop(_, _, _, _, _, _, _, _)
IcohpLoop(icohplist, icohps, k, index_n_site, index_n_site2, translation, done, acc) ==
    IF k > Len(icohps) THEN acc
    ELSE LET label == icohps[k]
             icohp == icohplist[label]
             atomnr1 == _get_atomnumber(icohp._atom1)
             atomnr2 == _get_atomnumber(icohp._atom2)
             t == icohp._translation
             icohp_trans == <<-t[1], -t[2], -t[3]>>
             ends == \/ index_n_site = atomnr1 /\ index_n_site2 = atomnr2
                     \/ index_n_site = atomnr2 /\ index_n_site2 = atomnr1
             added == AddBond(acc, icohplist, label, icohp.summed_icohp)
         IN  IF ends /\ atomnr1 /= atomnr2
             THEN IcohpLoop(icohplist, icohps, k + 1, index_n_site, index_n_site2,
                            translation, done,
                            IF translation = t THEN added ELSE acc)
             ELSE IF ends /\ ~done /\ (translation = t \/ translation = icohp_trans)
             THEN IcohpLoop(icohplist, icohps, k + 1, index_n_site, index_n_site2,
                            translation, TRUE, added)
             ELSE IcohpLoop(icohplist, icohps, k + 1, index_n_site, index_n_site2,
                            translation, done, acc)

\* v, computed here if it was still pending: a loop that uses it on entry keeps
\* one accumulator at a time
Evaluated(v) == v = v

\* PairLoop that queries the records of the neighbor with the lower atom index
RECURSIVE PairLoop_QueriesLowerIndex(_, _, _, _, _)
PairLoop_QueriesLowerIndex(obj, a, isite, pairs, acc) ==
    IF pairs = <<>> \/ ~Evaluated(acc) THEN acc
    ELSE LET st == a.structure
             n_site == obj.list_neighsite[isite + 1][Head(pairs)[1] + 1]
             n_site2 == obj.list_neighsite[isite + 1][Head(pairs)[2] + 1]
             index_n_site == _get_original_site(st, n_site)
             index_n_site2 == _get_original_site(st, n_site2)
             lower == IF index_n_site2 < index_n_site THEN index_n_site2
                      ELSE index_n_site
             icohps == get_icohp_dict_of_site(a.icohplist, lower, maxbondlength,
                                              obj.lowerlimit, obj.upperlimit,
                                              a.only_bonds_to)
             last == Len(acc.examined)
             after == IcohpLoop(a.icohplist, icohps, 1, index_n_site, index_n_site2,
                                PairTranslation(st, n_site, n_site2), FALSE, acc)
         IN  PairLoop_QueriesLowerIndex(obj, a, isite, Tail(pairs),
                      [ after EXCEPT
                          !.examined[last].pairs = Append(@, Head(pairs)),
                          !.examined[last].queried = Append(@, lower),
                          !.examined[last].counted =
                              Append(@, SubSeq(after.labels, Len(acc.labels) + 1,
                                               Len(after.labels))) ])

\* the body of the double loop for the pairs of the neighbors of isite still to do;
\* the entry of examined for isite gets the pair, the site whose records were
\* queried for it and the labels of the records counted for it
RECURSIVE PairLoop(_, _, _, _, _)
PairLoop(obj, a, isite, pairs, acc) ==
    IF pairs = <<>> \/ ~Evaluated(acc) THEN acc
    ELSE LET st == a.structure
             n_site == obj.list_neighsite[isite + 1][Head(pairs)[1] + 1]
             n_site2 == obj.list_neighsite[isite + 1][Head(pairs)[2] + 1]
             index_n_site == _get_original_site(st, n_site)
             index_n_site2 == _get_original_site(st, n_site2)
             icohps == get_icohp_dict_of_site(a.icohplist, index_n_site, maxbondlength,
                                              obj.lowerlimit, obj.upperlimit,
                                              a.only_bonds_to)
             last == Len(acc.examined)
             after == IcohpLoop(a.icohplist, icohps, 1, index_n_site, index_n_site2,
                                PairTranslation(st, n_site, n_site2), FALSE, acc)
         IN  PairLoop(obj, a, isite, Tail(pairs),
                      [ after EXCEPT
                          !.examined[last].pairs = Append(@, Head(pairs)),
                          !.examined[last].queried = Append(@, index_n_site),
                          !.examined[last].counted =
                              Append(@, SubSeq(after.labels, Len(acc.labels) + 1,
                                               Len(after.labels))) ])

\* for isite in isites, from position k of isites on
RECURSIVE IsitesLoop(_, _, _, _, _)
IsitesLoop(obj, a, isites, k, acc) ==
    IF k > Len(isites) THEN acc
    ELSE IsitesLoop(obj, a, isites, k + 1,
                    PairLoop(obj, a, isites[k],
                             ExaminedPairs(Len(obj.list_neighsite[isites[k] + 1])),
                             [ acc EXCEPT !.examined =
                                   Append(@, [isite |-> isites[k], pairs |-> <<>>,
                                              queried |-> <<>>, counted |-> <<>>]) ]))

get_info_icohps_between_neighbors(obj, a, isites, onlycation_isites) ==
    IF obj.valences.k = "None" /\ onlycation_isites
    THEN [raised |-> "ValueError: No valences are provided", value |-> None,
          examined |-> <<>>]
    ELSE LET sites == QueriedSites(a.structure, obj.valences, isites, onlycation_isites)
             acc == IsitesLoop(obj, a, sites, 1, NoBonds)
         IN  [ raised |-> "",
               value |-> ICOHPNeighborsInfo(acc.summed_icohps, acc.list_icohps,
                                            acc.number_bonds, acc.labels, acc.atoms,
                                            None),
               examined |-> acc.examined ]

\* the largest number of neighbors a coordination environment is determined for
CoordinationLimit == 13

\* LocalGeometryFinder: the symbol of the environment found for the coordinates
ce_symbol(coords) == [k |-> "ce", v |-> Len(coords)]

\* CoordsLoop that hands over the first CoordinationLimit coordinates of a
\* longer list instead of raising
RECURSIVE CoordsLoop_Shortens(_, _, _)
CoordsLoop_Shortens(list_coords, ival, acc) ==
    IF ival > Len(list_coords) THEN acc
    ELSE LET all == list_coords[ival]
             _neigh_coords == IF Len(all) > CoordinationLimit
                              THEN SubSeq(all, 1, CoordinationLimit) ELSE all
         IN  IF _neigh_coords /= <<>>
             THEN CoordsLoop_Shortens(list_coords, ival + 1,
                      [ acc EXCEPT !.handed = Append(@, [isite |-> ival - 1,
                                                         coords |-> _neigh_coords]),
                                   !.list_ce_symbols = Append(@, ce_symbol(_neigh_coords)) ])
             ELSE CoordsLoop_Shortens(list_coords, ival + 1,
                      [ acc EXCEPT !.list_ce_symbols = Append(@, None) ])

\* for ival, _neigh_coords in enumerate(self.list_coords), from position ival on;
\* handed: the calls of setup_local_geometry made so far
RECURSIVE CoordsLoop(_, _, _)
CoordsLoop(list_coords, ival, acc) ==
    IF ival > Len(list_coords) THEN acc
    ELSE LET _neigh_coords == list_coords[ival]
         IN  IF Len(_neigh_coords) > CoordinationLimit
             THEN [ acc EXCEPT !.raised = "ValueError: Environment cannot be determined" ]
             ELSE IF _neigh_coords /= <<>>
             THEN CoordsLoop(list_coords, ival + 1,
                      [ acc EXCEPT !.handed = Append(@, [isite |-> ival - 1,
                                                         coords |-> _neigh_coords]),
                                   !.list_ce_symbols = Append(@, ce_symbol(_neigh_coords)) ])
             ELSE CoordsLoop(list_coords, ival + 1,
                      [ acc EXCEPT !.list_ce_symbols = Append(@, None) ])

\* LobsterLightStructureEnvironments.from_Lobster: the neighbors of every site
\* with their image cells
from_Lobster(list_ce_symbol, list_neighsite, list_neighisite, st, valences) ==
    LET diff(isite, k) ==
            list_neighsite[isite][k].x - st.x[list_neighisite[isite][k] + 1]
        round_diff(isite, k) == Round(diff(isite, k), st.a)
        \* np.allclose(diff, round_diff): |diff - round| <= 1e-8 + 1e-5 * |round|
        allclose(isite, k) ==
            Abs(diff(isite, k) - round_diff(isite, k) * st.a)
                <= (Abs(round_diff(isite, k)) * st.a + st.a \div 1000) \div 100000
    IN  IF \E isite \in DOMAIN list_neighsite :
             \E k \in DOMAIN list_neighsite[isite] : ~allclose(isite, k)
        THEN [ raised |-> "ValueError: Weird, differences between one site in a periodic image cell is not integer",
               value |-> None ]
        ELSE [ raised |-> "",
               value |-> [ list_ce_symbol |-> list_ce_symbol,
                           valences |-> valences,
                           neighbors |->
                             [ isite \in DOMAIN list_neighsite |->
                                 [ k \in DOMAIN list_neighsite[isite] |->
                                     [ site |-> list_neighsite[isite][k],
                                       index |-> list_neighisite[isite][k],
                                       image_cell |-> <<round_diff(isite, k), 0, 0>> ] ] ] ] ]

get_light_structure_environment(obj, st, only_cation_environments, only_indices) ==
    LET loop == CoordsLoop(obj.list_coords, 1,
                           [raised |-> "", handed |-> <<>>, list_ce_symbols |-> <<>>])
        kept(ival) ==
            IF only_indices.k = "None"
            THEN ~only_cation_environments \/ obj.valences.v[ival + 1] >= 0
            ELSE ival \in Range(only_indices.v)
        new(list, empty) ==
            [ i \in DOMAIN list |-> IF kept(i - 1) THEN list[i] ELSE empty ]
    IN  IF loop.raised /= ""
        THEN [ raised |-> loop.raised, value |-> [handed |-> loop.handed, lse |-> None] ]
        ELSE IF only_indices.k = "None" /\ only_cation_environments
                /\ obj.valences.k = "None"
        THEN [ raised |-> "TypeError: 'NoneType' object is not iterable",
               value |-> [handed |-> loop.handed, lse |-> None] ]
        ELSE LET lse == from_Lobster(new(loop.list_ce_symbols, None),
                                     new(obj.list_neighsite, <<>>),
                                     new(obj.list_neighisite, <<>>),
                                     st, obj.valences)
             IN  [ raised |-> lse.raised,
                   value |-> [handed |-> loop.handed, lse |-> lse.value] ]

(***************************************************************************)
(* The calls of the query methods, once the object is constructed: one at  *)
(* a time, the next one after the caller has taken the outcome of the last.*)
(***************************************************************************)
\* isites: None, the first site, the last and the first site, and, when these
\* are two sites, the two with the first site once more
IsitesChoices(st) ==
    {None, List(<<0>>), List(<<NSites(st) - 1, 0>>)}
    \cup (IF NSites(st) > 1 THEN {List(<<0, NSites(st) - 1, 0>>)} ELSE {})

GetNNInfo ==
    /\ pc = "done"
    /\ result.call = ""
    /\ \E inp \in { [n |-> n, use_weights |-> FALSE, structure_len |-> NSites(args.structure)] :
                      n \in Sites(args.structure) }
                  \cup { [n |-> 0, use_weights |-> TRUE,
                          structure_len |-> NSites(args.structure)],
                         [n |-> 0, use_weights |-> FALSE,
                          structure_len |-> NSites(args.structure) + 1] } :
          LET r == get_nn_info(self, args.structure, inp.structure_len, inp.n,
                               inp.use_weights)
          IN  result' = Outcome("get_nn_info", inp, r.raised, r.value, <<>>)
    /\ UNCHANGED <<args, self, pc, raised, limit, extremum_based, idx, env, pool_left>>

GetInfoIcohpsToNeighbors ==
    /\ pc = "done"
    /\ result.call = ""
    /\ \E isites \in IsitesChoices(args.structure) :
       \E onlycation_isites \in BOOLEAN :
          LET r == get_info_icohps_to_neighbors(self, args, isites, onlycation_isites)
          IN  result' = Outcome("get_info_icohps_to_neighbors",
                                [isites |-> isites, onlycation_isites |-> onlycation_isites],
                                r.raised, r.value, <<>>)
    /\ UNCHANGED <<args, self, pc, raised, limit, extremum_based, idx, env, pool_left>>

GetInfoIcohpsBetweenNeighbors ==
    /\ pc = "done"
    /\ result.call = ""
    /\ \E isites \in IsitesChoices(args.structure) :
       \E onlycation_isites \in BOOLEAN :
          LET r == get_info_icohps_between_neighbors(self, args, isites, onlycation_isites)
          IN  result' = Outcome("get_info_icohps_between_neighbors",
                                [isites |-> isites, onlycation_isites |-> onlycation_isites],
                                r.raised, r.value, r.examined)
    /\ UNCHANGED <<args, self, pc, raised, limit, extremum_based, idx, env, pool_left>>

\* GetLightStructureEnvironment that keeps the lists it selected in the object
GetLightStructureEnvironment_KeepsSelection ==
    /\ pc = "done"
    /\ result.call = ""
    /\ \E only_cation_environments \in BOOLEAN :
       \E only_indices \in {None, List(<<0>>)} :
          LET r == get_light_structure_environment(self, args.structure,
                                                   only_cation_environments, only_indices)
          IN  /\ result' = Outcome("get_light_structure_environment",
                                   [only_cation_environments |-> only_cation_environments,
                                    only_indices |-> only_indices],
                                   r.raised, r.value, <<>>)
              /\ self' = IF only_indices.k = "None" THEN self
                         ELSE [ self EXCEPT !["list_neighsite"] =
                                  [ i \in DOMAIN @ |->
                                      IF i - 1 \in Range(only_indices.v) THEN @[i] ELSE <<>> ] ]
    /\ UNCHANGED <<args, pc, raised, limit, extremum_based, idx, env, pool_left>>

GetLightStructureEnvironment ==
    /\ pc = "done"
    /\ result.call = ""
    /\ \E only_cation_environments \in BOOLEAN :
       \E only_indices \in {None, List(<<0>>)} :
          LET r == get_light_structure_environment(self, args.structure,
                                                   only_cation_environments, only_indices)
          IN  result' = Outcome("get_light_structure_environment",
                                [only_cation_environments |-> only_cation_environments,
                                 only_indices |-> only_indices],
                                r.raised, r.value, <<>>)
    /\ UNCHANGED <<args, self, pc, raised, limit, extremum_based, idx, env, pool_left>>

\* the call is over: the outcome is with the caller
Return ==
    /\ pc = "done"
    /\ result.call /= ""
    /\ result' = NoCall
    /\ UNCHANGED <<args, self, pc, raised, limit, extremum_based, idx, env, pool_left>>

Next ==
    \/ ReadValences
    \/ GetLimits
    \/ FindEnvironments
    \/ StoreResults

Spec == Init /\ [][Next]_vars

(***************************************************************************)
(* The constructed object under its query methods.                         *)
(***************************************************************************)
\* a chain of one site so dense that a site has more images within 6.0 than
\* the coordination limit
DenseChain == [species |-> <<"Na">>, x |-> <<0>>, a |-> 80000]

\* the bonds of the site to its own images in the cells 1, -1, 2, -2, ...
DenseBonds(n) ==
    [ k \in 1..n |->
        Bond(DenseChain, 0, 0, IF k % 2 = 1 THEN (k + 1) \div 2 ELSE -(k \div 2), 0, -100) ]

\* the arguments of a constructor call on ICOHPs without only_bonds_to
Arguments(st, icohplist, valences, additional_condition, la) ==
    [ structure |-> st,
      icohplist |-> icohplist,
      are_coops |-> FALSE,
      are_cobis |-> FALSE,
      valences |-> valences,
      limits |-> la.limits,
      additional_condition |-> additional_condition,
      only_bonds_to |-> None,
      perc_strength_icohp |-> la.perc_strength_icohp,
      noise_cutoff |-> la.noise_cutoff,
      adapt_extremum_to_add_cond |-> la.adapt_extremum_to_add_cond ]

QueryValences(st) ==
    {None, List([i \in 1..NSites(st) |-> IF i = 2 THEN -1 ELSE 1])}

QueryLimitArgs ==
    { la \in LimitArgs :
        /\ ~la.adapt_extremum_to_add_cond
        /\ la.limits.k = "list" => la.limits.v[1] /= None /\ la.limits.v[2] /= None }

\* Chain2 with Na1-Cl2 in the cell, Na1 to its own image, and Cl2-Na1 to the next
\* cell, under limits that take the three of them
MixedBonds ==
    << Bond(Chain2, 0, 1, 0, 0, -100), Bond(Chain2, 0, 0, 1, 0, -10),
       Bond(Chain2, 1, 0, 1, 15, -30) >>

WideLimits ==
    [ limits |-> List(<<Num(-100000), Num(-500)>>), perc_strength_icohp |-> 15,
      noise_cutoff |-> Num(1000), adapt_extremum_to_add_cond |-> FALSE ]

\* the two chains under the conditions 0 and 1, the dense chain with as many
\* bonds as the coordination limit and with one more, and the mixed bonds
QueryArguments ==
    { Arguments(st, icohplist, valences, additional_condition, la) :
        st \in {Chain2}, icohplist \in ICOHPLists(Chain2),
        valences \in QueryValences(Chain2), additional_condition \in {0, 1},
        la \in QueryLimitArgs }
    \cup
    { Arguments(st, icohplist, valences, additional_condition, la) :
        st \in {Chain3}, icohplist \in ICOHPLists(Chain3),
        valences \in QueryValences(Chain3), additional_condition \in {0, 1},
        la \in QueryLimitArgs }
    \cup
    { Arguments(DenseChain, DenseBonds(n), List(<<1>>), 0, la) :
        n \in {CoordinationLimit, CoordinationLimit + 1},
        la \in { l \in QueryLimitArgs : l.perc_strength_icohp = 100 } }
    \cup
    { [ Arguments(Chain2, MixedBonds, valences, 0, WideLimits)
          EXCEPT !.only_bonds_to = only_bonds_to ] :
        valences \in QueryValences(Chain2),
        only_bonds_to \in {None, List({"Na"}), List({"Na", "Cl"})} }

InitQuery ==
    /\ args \in QueryArguments
    /\ self = ("additional_condition" :> args.additional_condition)
    /\ pc = "valences"
    /\ raised = ""
    /\ limit = <<None, None>>
    /\ extremum_based = None
    /\ idx = 0
    /\ env = EmptyEnv
    /\ pool_left = <<>>
    /\ result = NoCall

NextQuery ==
    \/ Next
    \/ GetNNInfo
    \/ GetInfoIcohpsToNeighbors
    \/ GetInfoIcohpsBetweenNeighbors
    \/ GetLightStructureEnvironment
    \/ Return

SpecQuery == InitQuery /\ [][NextQuery]_vars

(***************************************************************************)
(* LobsterLightStructureEnvironments.from_Lobster called on its own, with  *)
(* one neighbor of the first site: the image of site j in the cell n, off  *)
(* its exact position by dev (1e-5 Angstrom; 1 is 1.7e-6 of the lattice).  *)
(***************************************************************************)
ImageArguments(st, j, n, dev) ==
    [ structure |-> st,
      list_ce_symbol |-> [i \in 1..NSites(st) |-> None],
      list_neighsite |->
          [i \in 1..NSites(st) |->
              IF i = 1 THEN <<[species |-> st.species[j + 1], x |-> ImageX(st, j, n) + dev]>>
              ELSE <<>>],
      list_neighisite |-> [i \in 1..NSites(st) |-> IF i = 1 THEN <<j>> ELSE <<>>],
      valences |-> None ]

InitImage ==
    /\ \E st \in Structures : \E j \in Sites(st) : \E n \in -2..2 :
       \E dev \in {-7, -6, -1, 0, 1, 6, 7} :
          args = ImageArguments(st, j, n, dev)
    /\ self = <<>>
    /\ pc = "from_Lobster"
    /\ raised = ""
    /\ limit = <<None, None>>
    /\ extremum_based = None
    /\ idx = 0
    /\ env = EmptyEnv
    /\ pool_left = <<>>
    /\ result = NoCall

FromLobster ==
    /\ pc = "from_Lobster"
    /\ LET r == from_Lobster(args.list_ce_symbol, args.list_neighsite,
                             args.list_neighisite, args.structure, args.valences)
       IN  result' = Outcome("from_Lobster", <<>>, r.raised, r.value, <<>>)
    /\ pc' = "returned"
    /\ UNCHANGED <<args, self, raised, limit, extremum_based, idx, env, pool_left>>

NextImage == FromLobster

SpecImage == InitImage /\ [][NextImage]_vars

(***************************************************************************)
(* Properties.                                                             *)
(***************************************************************************)
LimitsSelected == pc \in {"find", "done"} /\ args.limits.k = "None"

ResultAttributes ==
    {"list_icohps", "list_keys", "list_lengths", "list_neighisite", "list_neighsite",
     "list_coords", "sg_list"}

NothingCached == DOMAIN self \cap ResultAttributes = {} /\ env = EmptyEnv

\* the sites whose pass of the loop is over, as positions of the result lists
Processed == 1..Len(env.list_keys)

\* the records that get_icohp_dict_of_site hands over for the site at position s
CandidatesOf(s) ==
    get_icohp_dict_of_site(args.icohplist, s - 1, maxbondlength, limit[1], limit[2],
                           args.only_bonds_to)

\* C1: when no limits are given the window is (-inf, min(extremum * percentage,
\* -noise_cutoff)) for ICOHPs and (max(extremum * percentage, noise_cutoff), inf)
\* for ICOOPs and ICOBIs, the finite bound being extremum * percentage itself
\* when noise_cutoff is None; so upper <= -noise_cutoff, lower >= noise_cutoff.
C1_LimitWindow ==
    LimitsSelected =>
        LET nc == args.noise_cutoff
            e == extremum_based
        IN  IF ~args.are_coops /\ ~args.are_cobis
            THEN /\ limit[1] = NegInf
                 /\ nc = None => limit[2] = e
                 /\ nc /= None => /\ limit[2].k = "num"
                                  /\ limit[2].v <= e.v
                                  /\ limit[2].v <= -nc.v
                                  /\ limit[2].v \in {e.v, -nc.v}
            ELSE /\ limit[2] = PosInf
                 /\ nc = None => limit[1] = e
                 /\ nc /= None => /\ limit[1].k = "num"
                                  /\ limit[1].v >= e.v
                                  /\ limit[1].v >= nc.v
                                  /\ limit[1].v \in {e.v, nc.v}

\* the noise cutoff, not the extremum, sets the upper limit of an ICOHP window
C1_Witness ==
    /\ LimitsSelected
    /\ ~args.are_coops /\ ~args.are_cobis
    /\ args.noise_cutoff /= None
    /\ limit[2] = Num(-args.noise_cutoff.v)
    /\ extremum_based.v > -args.noise_cutoff.v

\* C2 (as claimed): after construction every site has as many resolved
\* neighbours as bond records selected for it.
C2_NeighboursEqualSelected ==
    pc = "done" =>
        \A s \in DOMAIN self.list_keys :
            /\ Len(self.list_neighsite[s]) = Len(self.list_keys[s])
            /\ Len(self.sg_list[s]) = Len(self.list_keys[s])

\* C2 (amended): after construction the resolved neighbours of a site are as
\* many as the selected records less those left in the pool without a matching
\* periodic image, hence never more than the selected records.
C2_NeighboursPlusUnmatched ==
    /\ \A s \in Processed :
          /\ Len(env.list_neighsite[s]) + Len(pool_left[s]) = Len(env.list_keys[s])
          /\ Len(env.list_neighisite[s]) = Len(env.list_neighsite[s])
    /\ pc = "done" =>
          \A s \in DOMAIN self.list_keys :
              /\ Len(self.sg_list[s]) = Len(self.list_neighsite[s])
              /\ Len(self.list_neighsite[s]) + Len(pool_left[s]) = Len(self.list_keys[s])
              /\ Len(self.list_neighsite[s]) <= Len(self.list_keys[s])

\* a site with a resolved neighbour and with a selected record left unmatched
C2_Witness ==
    /\ pc = "done"
    /\ \E s \in DOMAIN self.list_keys :
          Len(self.list_neighsite[s]) >= 1 /\ Len(pool_left[s]) >= 1

\* C3 (as claimed): in every entry of sg_list the record named by bond_label
\* joins the site and the entry's site_index, bond_length and ICOHP are that
\* record's, and the length is within 1e-4 of the distance to the entry's site.
C3_EntryMatchesRecord ==
    pc = "done" =>
        \A s \in DOMAIN self.sg_list : \A k \in DOMAIN self.sg_list[s] :
            LET e == self.sg_list[s][k]
                b == args.icohplist[e.edge_properties.bond_label]
                ends == {_get_atomnumber(b._atom1), _get_atomnumber(b._atom2)}
            IN  /\ ends = {s - 1, e.site_index}
                /\ e.edge_properties.bond_length = b._length
                /\ e.edge_properties.ICOHP = b.summed_icohp
                /\ IsClose(b._length, Abs(e.site.x - args.structure.x[s]))

\* C4 (as claimed): under condition 5 a candidate record of a site is selected
\* exactly when both valences are >= 0 or both are < 0.
C4_SameSignWithZero ==
    args.additional_condition = 5 =>
        \A s \in Processed : \A k \in Range(CandidatesOf(s)) :
            LET b == args.icohplist[k]
                val1 == self.valences.v[b._atom1.tail]
                val2 == self.valences.v[b._atom2.tail]
            IN  (k \in Range(env.list_keys[s])) <=>
                    ((val1 >= 0 /\ val2 >= 0) \/ (val1 < 0 /\ val2 < 0))

\* C5: under condition 1 the valences of a site and of each of its resolved
\* neighbours are strictly opposite in sign.
C5_OppositeValences ==
    args.additional_condition = 1 =>
        /\ \A s \in Processed : \A k \in DOMAIN env.list_neighisite[s] :
              LET vs == self.valences.v[s]
                  vn == self.valences.v[env.list_neighisite[s][k] + 1]
              IN  (vs < 0 /\ vn > 0) \/ (vs > 0 /\ vn < 0)
        /\ pc = "done" =>
              \A s \in DOMAIN self.sg_list : \A k \in DOMAIN self.sg_list[s] :
                  LET vs == self.valences.v[s]
                      vn == self.valences.v[self.sg_list[s][k].site_index + 1]
                  IN  (vs < 0 /\ vn > 0) \/ (vs > 0 /\ vn < 0)

\* a neighbour resolved under condition 1
C5_Witness ==
    /\ args.additional_condition = 1
    /\ pc = "done"
    /\ \E s \in DOMAIN self.sg_list : Len(self.sg_list[s]) >= 1

\* the four parallel lists as one list of entries
Entries(f) ==
    [p \in DOMAIN f.keys_from_ICOHPs |->
        <<f.keys_from_ICOHPs[p], f.lengths_from_ICOHPs[p], f.neighbors_from_ICOHPs[p],
          f.icohps_from_ICOHPs[p]>>]

\* C6: the records selected under condition 3 are those selected under
\* condition 1 that are also selected under condition 2, in the same order and
\* with the same label, length, neighbour and strength.
C6_Condition3IsBoth ==
    (pc \in {"find", "done"} /\ self.valences.k = "list") =>
        \A s \in 1..NSites(args.structure) :
            LET sel(c) == _find_relevant_atoms_additional_condition(
                              args.icohplist, self.valences.v, s - 1, CandidatesOf(s), c)
                both == SelectSeq(Entries(sel(1)), LAMBDA e : e \in Range(Entries(sel(2))))
            IN  /\ Entries(sel(3)) = both
                /\ (args.additional_condition = 3 /\ s \in Processed) =>
                       /\ env.list_keys[s] = [p \in DOMAIN both |-> both[p][1]]
                       /\ env.list_lengths[s] = [p \in DOMAIN both |-> both[p][2]]
                       /\ env.list_icohps[s] = [p \in DOMAIN both |-> both[p][4]]

\* under condition 3 a site keeps a record, and condition 1 alone or condition 2
\* alone would have kept one more
C6_Witness ==
    /\ pc = "done"
    /\ args.additional_condition = 3
    /\ \E s \in DOMAIN self.list_keys :
          LET sel(c) == _find_relevant_atoms_additional_condition(
                            args.icohplist, self.valences.v, s - 1, CandidatesOf(s), c)
          IN  /\ Len(self.list_keys[s]) >= 1
              /\ \/ Len(sel(1).keys_from_ICOHPs) > Len(self.list_keys[s])
                 \/ Len(sel(2).keys_from_ICOHPs) > Len(self.list_keys[s])

\* the strengths the extremum is claimed to be taken over
ClaimedExtremumSet ==
    LET all == DOMAIN args.icohplist
        S == IF ~args.adapt_extremum_to_add_cond \/ args.additional_condition = 0
             THEN all
             ELSE { k \in all : ConditionHolds(args.additional_condition,
                                               args.icohplist[k], self.valences.v) }
    IN  { args.icohplist[k].summed_icohp : k \in S }

\* C7: the extremum (minimum for ICOHPs, maximum otherwise) is taken over all
\* records without adaptation or under condition 0, and over exactly the records
\* of the collection that pass the condition when adapting; it is multiplied by
\* the percentage.
C7_ExtremumOverSubset ==
    LimitsSelected =>
        /\ ClaimedExtremumSet /= {}
        /\ \E m \in ClaimedExtremumSet :
              /\ \A w \in ClaimedExtremumSet :
                     IF ~args.are_coops /\ ~args.are_cobis THEN m <= w ELSE m >= w
              /\ extremum_based = Num(m * args.perc_strength_icohp)

\* adapting changes the extremum: the strongest record does not pass the condition
C7_Witness ==
    /\ LimitsSelected
    /\ args.adapt_extremum_to_add_cond
    /\ args.additional_condition \in 1..6
    /\ \E k \in DOMAIN args.icohplist :
          /\ args.icohplist[k].summed_icohp \notin ClaimedExtremumSet
          /\ \A w \in ClaimedExtremumSet :
                 IF ~args.are_coops /\ ~args.are_cobis
                 THEN args.icohplist[k].summed_icohp < w
                 ELSE args.icohplist[k].summed_icohp > w

\* C8: when the limits are adapted to a condition 1..6 that no record of the
\* collection passes, the selection of the limits raises; no limits are
\* produced and no results are cached.
C8_EmptySelectionRaises ==
    LET adapting == /\ args.limits.k = "None"
                    /\ args.adapt_extremum_to_add_cond
                    /\ args.additional_condition \in 1..6
        nonepasses == \A k \in DOMAIN args.icohplist :
                          ~ConditionHolds(args.additional_condition, args.icohplist[k],
                                          self.valences.v)
        emptyerror == raised = "ValueError: min() arg is an empty sequence"
    IN  /\ (pc \in {"find", "done", "raised"} /\ "lowerlimit" \in DOMAIN self
               /\ adapting /\ nonepasses)
            => (pc = "raised" /\ emptyerror)
        /\ emptyerror =>
              /\ pc = "raised" /\ adapting /\ nonepasses
              /\ limit = <<None, None>> /\ extremum_based = None
              /\ NothingCached

\* the selection of the limits has raised on an empty list
C8_Witness ==
    /\ pc = "raised"
    /\ raised = "ValueError: min() arg is an empty sequence"

\* C9: with a condition in {1, 3, 5, 6} and valences that are all zero the
\* construction raises before the limits are selected and before any site is
\* evaluated; no result list exists afterwards.
C9_ZeroValencesRaise ==
    LET zero(v) == v.k = "list" /\ \A i \in DOMAIN v.v : v.v[i] = 0
        given == zero(args.valences) \/ ("valences" \in DOMAIN self /\ zero(self.valences))
    IN  (given /\ args.additional_condition \in {1, 3, 5, 6}) =>
            /\ pc \in {"valences", "raised"}
            /\ pc = "raised" => raised = "ValueError: All valences are equal to 0"
            /\ limit = <<None, None>> /\ extremum_based = None /\ idx = 0
            /\ NothingCached
            /\ "lowerlimit" \notin DOMAIN self

\* the construction has raised on valences that are all zero
C9_Witness ==
    /\ pc = "raised"
    /\ raised = "ValueError: All valences are equal to 0"
    /\ args.additional_condition = 6

\* C10: limits with exactly one bound None make the construction raise without
\* any result cached; with both None the limits come from the extremum; with
\* both given they are the limits used for every site.
C10_TwoLimitsOrNone ==
    LET given == args.limits.k = "list"
        lower == args.limits.v[1]
        upper == args.limits.v[2]
        onemissing == given /\ ((lower = None) /= (upper = None))
    IN  /\ onemissing =>
              /\ pc \in {"valences", "evaluate", "raised"}
              /\ NothingCached /\ limit = <<None, None>>
              /\ (pc = "raised" /\ "lowerlimit" \in DOMAIN self) =>
                     raised = "ValueError: Please give two limits or leave them both at None"
              /\ pc = "raised" => raised /= ""
        /\ (~given /\ pc \in {"find", "done"}) =>
              /\ extremum_based /= None
              /\ limit[1] = NegInf \/ limit[2] = PosInf
              /\ limit[1] /= None /\ limit[2] /= None
        /\ (given /\ ~onemissing /\ pc \in {"find", "done"}) =>
              /\ limit = <<lower, upper>>
              /\ extremum_based = None
              /\ \A s \in Processed : \A p \in DOMAIN env.list_keys[s] :
                     /\ lower.v <= env.list_icohps[s][p] * 100
                     /\ env.list_icohps[s][p] * 100 <= upper.v
                     /\ env.list_icohps[s][p] =
                            args.icohplist[env.list_keys[s][p]].summed_icohp

\* the construction has raised on a single limit
C10_Witness ==
    /\ pc = "raised"
    /\ raised = "ValueError: Please give two limits or leave them both at None"

(***************************************************************************)
(* Properties of the query methods.                                        *)
(***************************************************************************)
RECURSIVE SumSeq(_)
SumSeq(s) ==
    IF s = <<>> THEN 0
    ELSE IF Len(s) = 1 THEN s[1]
    ELSE SumSeq(SubSeq(s, 1, Len(s) \div 2)) + SumSeq(SubSeq(s, Len(s) \div 2 + 1, Len(s)))

\* the last call was one of the two bond queries and it returned
InfoReturned ==
    /\ result.call \in {"get_info_icohps_to_neighbors", "get_info_icohps_between_neighbors"}
    /\ result.raised = ""

\* C11: in every ICOHPNeighborsInfo returned by get_info_icohps_to_neighbors or
\* get_info_icohps_between_neighbors, whatever isites was, total_icohp is the
\* sum of list_icohps, and n_bonds is the length of list_icohps, of labels, of
\* atoms, and of central_isites when that is not None.
C11_InfoConsistent ==
    InfoReturned =>
        LET info == result.value
        IN  /\ info.total_icohp = SumSeq(info.list_icohps)
            /\ info.n_bonds = Len(info.list_icohps)
            /\ info.n_bonds = Len(info.labels)
            /\ info.n_bonds = Len(info.atoms)
            /\ info.central_isites.k /= "None" =>
                   info.n_bonds = Len(info.central_isites.v)

\* both queries have returned bonds: here the one between neighbors, for an
\* explicit isites
C11_Witness ==
    /\ result.call = "get_info_icohps_between_neighbors"
    /\ result.raised = ""
    /\ result.input.isites.k = "list"
    /\ result.value.n_bonds >= 2

(***************************************************************************)
(* Properties of the matching of candidates to periodic images.            *)
(***************************************************************************)
\* the record is between two distinct atoms, inside the window, not longer than
\* 6.0, and as long as the distance from one atom to some image of the other
ResolvableRecord(b) ==
    LET st == args.structure
        a1 == _get_atomnumber(b._atom1)
        a2 == _get_atomnumber(b._atom2)
        reach == b._length \div st.a + 1
    IN  /\ a1 /= a2
        /\ InLimits(b.summed_icohp, limit[1], limit[2])
        /\ b._length <= 600000
        /\ \E n \in (0 - reach)..reach :
               IsClose(b._length, Abs(ImageX(st, a2, n) - st.x[a1 + 1]))

\* site s has the record with label k among its keys and a neighbor that is an
\* image of site t at the length of the record
ResolvedVia(s, k, t) ==
    /\ k \in Range(self.list_keys[s + 1])
    /\ \E p \in DOMAIN self.list_neighsite[s + 1] :
           /\ self.list_neighisite[s + 1][p] = t
           /\ IsClose(args.icohplist[k]._length,
                      Abs(self.list_neighsite[s + 1][p].x - args.structure.x[s + 1]))

\* a structure of two sites with one resolvable record, percentage 1.0, no
\* noise cutoff, no limits given
TwoSitesOneRecord ==
    /\ NSites(args.structure) = 2
    /\ Len(args.icohplist) = 1
    /\ ResolvableRecord(args.icohplist[1])
    /\ args.limits.k = "None"
    /\ args.perc_strength_icohp = 100
    /\ args.noise_cutoff = None

\* C12: without condition and without only_bonds_to, a record between two
\* distinct atoms a and b that lies in the window, is at most 6.0 long and
\* matches an image of the other atom is resolved from both ends: a has b as a
\* neighbor via the record and b has a.  For two sites and a single such record,
\* percentage 1.0 and no noise cutoff, the window is (-inf, strength of the
\* record) (ICOHPs) and each site has exactly one neighbor, the other site.
C12_ResolvedFromBothEnds ==
    (pc = "done" /\ args.additional_condition = 0 /\ args.only_bonds_to.k = "None") =>
        /\ \A k \in DOMAIN args.icohplist :
               LET b == args.icohplist[k]
                   a1 == _get_atomnumber(b._atom1)
                   a2 == _get_atomnumber(b._atom2)
               IN  ResolvableRecord(b) => ResolvedVia(a1, k, a2) /\ ResolvedVia(a2, k, a1)
        /\ TwoSitesOneRecord =>
               /\ ~args.are_coops /\ ~args.are_cobis =>
                      limit = <<NegInf, Num(args.icohplist[1].summed_icohp * 100)>>
               /\ self.list_neighisite = <<<<1>>, <<0>>>>

\* two sites and a single record, written from its second atom, resolved from
\* both ends
C12_Witness ==
    /\ pc = "done"
    /\ args.additional_condition = 0
    /\ TwoSitesOneRecord
    /\ _get_atomnumber(args.icohplist[1]._atom1) = 1
    /\ self.list_neighisite = <<<<1>>, <<0>>>>

\* what the object holds after construction: the cached lists, the limits, the
\* condition and the valences
FrameAttributes ==
    ResultAttributes \cup {"lowerlimit", "upperlimit", "additional_condition", "valences"}

\* C14: once constructed, no call of get_nn_info, get_info_icohps_to_neighbors,
\* get_info_icohps_between_neighbors or get_light_structure_environment, whether
\* it returns or raises, changes list_neighsite, list_neighisite, list_keys,
\* list_lengths, list_icohps, list_coords, sg_list, the stored limits, the
\* condition or the valences.
C14_QueriesLeaveCache ==
    [][pc = "done" =>
         /\ DOMAIN self' = DOMAIN self
         /\ \A n \in FrameAttributes : self'[n] = self[n]]_vars

\* a call has raised on an object that has neighbors cached
C14_Witness ==
    /\ pc = "done"
    /\ result.call = "get_info_icohps_between_neighbors"
    /\ result.raised /= ""
    /\ \E s \in DOMAIN self.list_neighsite : self.list_neighsite[s] /= <<>>

\* the outcome (exception and value) of the last bond query, had it been called
\* with the same isites and onlycation_isites = False
OutcomeWithoutOnlycation ==
    IF result.call = "get_info_icohps_to_neighbors"
    THEN get_info_icohps_to_neighbors(self, args, result.input.isites, FALSE)
    ELSE get_info_icohps_between_neighbors(self, args, result.input.isites, FALSE)

\* C15: with isites given explicitly, a call of get_info_icohps_to_neighbors or
\* get_info_icohps_between_neighbors with onlycation_isites = True has the same
\* outcome, result or error, as the call with onlycation_isites = False, for
\* every valence assignment including None.
C15_OnlycationIgnoredWithIsites ==
    ( /\ result.call \in {"get_info_icohps_to_neighbors",
                          "get_info_icohps_between_neighbors"}
      /\ result.input.isites.k = "list"
      /\ result.input.onlycation_isites ) =>
        /\ result.raised = OutcomeWithoutOnlycation.raised
        /\ result.raised = "" => result.value = OutcomeWithoutOnlycation.value

\* some site has more than 13 resolved neighbors
SomeSiteOverLimit == \E s \in DOMAIN self.list_neighsite : Len(self.list_neighsite[s]) > 13

\* C16: get_light_structure_environment raises its error exactly when some site
\* has more than 13 resolved neighbors; what it hands to the classifier is the
\* whole coordinate list of a site, and a neighbor list it returns is the whole
\* list of the site (or empty for a site left out), never one cut to the limit.
C16_NoSilentTruncation ==
    result.call = "get_light_structure_environment" =>
        /\ SomeSiteOverLimit <=>
               result.raised = "ValueError: Environment cannot be determined"
        /\ \A h \in DOMAIN result.value.handed :
               result.value.handed[h].coords
                   = self.list_coords[result.value.handed[h].isite + 1]
        /\ result.raised = "" =>
               \A s \in DOMAIN self.list_neighsite :
                   LET returned == result.value.lse.neighbors[s]
                   IN  \/ returned = <<>>
                       \/ /\ Len(returned) = Len(self.list_neighsite[s])
                          /\ \A k \in DOMAIN returned :
                                 returned[k].site = self.list_neighsite[s][k]

\* a site with 14 resolved neighbors: the call has raised
C16_Witness ==
    /\ result.call = "get_light_structure_environment"
    /\ result.raised = "ValueError: Environment cannot be determined"
    /\ Len(self.list_neighsite[1]) = 14

\* a site with exactly 13 resolved neighbors: the call has returned them all
C16_AtLimit ==
    /\ result.call = "get_light_structure_environment"
    /\ result.raised = ""
    /\ Len(self.list_neighsite[1]) = 13
    /\ Len(result.value.lse.neighbors[1]) = 13

\* the search results for the site at position s, in the order they are examined
SearchResults(s) ==
    LET st == args.structure
        lens == env.list_lengths[s]
        r == (CHOOSE m \in Range(lens) : \A w \in Range(lens) : m >= w) + 50000
    IN  IF lens = <<>> THEN <<>>
        ELSE SortedByDist(get_sites_in_sphere(st, st.x[s], r))

\* the atom at the other end of the record with label k, seen from site s - 1
OtherEnd(s, k) ==
    LET b == args.icohplist[k]
    IN  IF _get_atomnumber(b._atom1) = s - 1 THEN _get_atomnumber(b._atom2)
        ELSE _get_atomnumber(b._atom1)

\* the site whose pass of the loop has just ended, as a position of the result
\* lists (every site is this one in the state that follows its pass)
JustProcessed == IF pc = "find" /\ idx >= 1 THEN {idx} ELSE {}

\* C17: for every site, each candidate is bound to at most one search result and
\* each search result binds at most one candidate: the resolved neighbors are
\* distinct search results, each paired with a candidate of its own (same atom,
\* length within tolerance of its distance), so there are no more neighbors than
\* candidates nor than search results, and a search result without a matching
\* candidate is no neighbor.
C17_OneToOneBinding ==
    \A s \in JustProcessed :
        LET st == args.structure
            keys == env.list_keys[s]
            neigh == env.list_neighsite[s]
            found == SearchResults(s)
            dist(p) == Abs(neigh[p].x - st.x[s])
        IN  /\ Len(neigh) <= Len(keys)
            /\ Len(neigh) <= Len(found)
            /\ \A p, q \in DOMAIN neigh : p /= q => neigh[p] /= neigh[q]
            /\ \A p \in DOMAIN neigh : \E e \in DOMAIN found : found[e].site = neigh[p]
            /\ \E f \in [DOMAIN neigh -> DOMAIN keys] :
                   /\ \A p, q \in DOMAIN neigh : p /= q => f[p] /= f[q]
                   /\ \A p \in DOMAIN neigh :
                          /\ OtherEnd(s, keys[f[p]]) = env.list_neighisite[s][p]
                          /\ Abs(args.icohplist[keys[f[p]]]._length - dist(p))
                                 <= (dist(p) + 10) \div 10000

\* a site with two bound candidates, one candidate left in the pool and search
\* results that bound nothing
C17_Witness ==
    /\ pc = "done"
    /\ Len(env.list_neighsite[1]) = 2
    /\ Len(pool_left[1]) = 1
    /\ Len(SearchResults(1)) > 3

\* |L - d| <= 1e-4 * d (+ 1e-8), lengths in 1e-5 Angstrom
WithinTolerance(L, d) == Abs(L - d) <= (d + 10) \div 10000

\* C18: a candidate of length L for atom a binds a search result of atom a at
\* distance d when |L - d| is within the relative tolerance 1e-4 (3.00 and
\* 3.00015) and not when it is outside (3.00 and 3.01): every resolved neighbor
\* is within tolerance of a candidate for its atom, and a candidate stays in the
\* pool only if every search result of its atom within tolerance was bound.  A
\* candidate left in the pool raises nothing: the construction goes on.
C18_ToleranceBinding ==
    /\ WithinTolerance(300000, 300015) /\ ~WithinTolerance(300000, 301000)
    /\ pc = "raised" => env = EmptyEnv
    /\ \A s \in JustProcessed :
           LET st == args.structure
               keys == env.list_keys[s]
               neigh == env.list_neighsite[s]
               found == SearchResults(s)
           IN  /\ \A p \in DOMAIN neigh :
                      \E c \in DOMAIN keys :
                          /\ OtherEnd(s, keys[c]) = env.list_neighisite[s][p]
                          /\ WithinTolerance(env.list_lengths[s][c],
                                             Abs(neigh[p].x - st.x[s]))
               /\ \A c \in DOMAIN pool_left[s] :
                      \A e \in DOMAIN found :
                          ( /\ found[e].index = pool_left[s][c].neighbor
                            /\ WithinTolerance(pool_left[s][c].dist, found[e].dist) )
                              => found[e].site \in Range(neigh)
               /\ raised = ""

\* construction is complete; the first site bound a candidate of length 3.20015
\* to the image at 3.2 and left the candidate of length 2.81 unbound, the image
\* being at 2.8
C18_Witness ==
    /\ pc = "done"
    /\ pool_left[1] = <<[neighbor |-> 1, dist |-> 281000]>>
    /\ 320015 \in Range(env.list_lengths[1])
    /\ \E p \in DOMAIN env.list_neighsite[1] : env.list_neighsite[1][p].x = -320000

\* the position of the site among the results of the periodic search for the
\* site at position s, as the search returned them
SearchPosition(s, site) ==
    LET st == args.structure
        lens == env.list_lengths[s]
        r == (CHOOSE m \in Range(lens) : \A w \in Range(lens) : m >= w) + 50000
        returned == get_sites_in_sphere(st, st.x[s], r)
    IN  CHOOSE i \in DOMAIN returned : returned[i].site = site

\* C19: for every site the resolved neighbors are in non-decreasing order of
\* their distance from the site, and neighbors at the same distance are in the
\* order in which the periodic search returned them.
C19_SortedByDistanceStable ==
    \A s \in JustProcessed :
        LET neigh == env.list_neighsite[s]
            dist(p) == Abs(neigh[p].x - args.structure.x[s])
        IN  \A p, q \in DOMAIN neigh :
                p < q =>
                    /\ dist(p) <= dist(q)
                    /\ dist(p) = dist(q) =>
                           SearchPosition(s, neigh[p]) < SearchPosition(s, neigh[q])

\* a site with two resolved neighbors at the same distance, images of two
\* different atoms
C19_Witness ==
    /\ pc = "done"
    /\ \E s \in DOMAIN env.list_neighsite :
           LET neigh == env.list_neighsite[s]
               dist(p) == Abs(neigh[p].x - args.structure.x[s])
           IN  \E p, q \in DOMAIN neigh :
                   /\ p < q
                   /\ dist(p) = dist(q)
                   /\ env.list_neighisite[s][p] /= env.list_neighisite[s][q]

\* C20: for a site with n resolved neighbors get_info_icohps_between_neighbors
\* examines each of the n(n-1)/2 pairs of list positions i < j exactly once and
\* no position with itself; two images of the same atom at different positions
\* of the list are a pair like any other.
C20_EachPairOnce ==
    (result.call = "get_info_icohps_between_neighbors" /\ result.raised = "") =>
        \A k \in DOMAIN result.examined :
            LET n == Len(self.list_neighsite[result.examined[k].isite + 1])
                pairs == result.examined[k].pairs
            IN  /\ Len(pairs) * 2 = n * (n - 1)
                /\ \A m \in DOMAIN pairs : pairs[m][1] /= pairs[m][2]
                /\ \A i, j \in 0..(n - 1) :
                       i < j =>
                           Cardinality({ m \in DOMAIN pairs :
                                           pairs[m] = <<i, j>> \/ pairs[m] = <<j, i>> }) = 1

\* a site with three neighbors or more, two of them images of the same atom,
\* and their pair has been examined
C20_Witness ==
    /\ result.call = "get_info_icohps_between_neighbors"
    /\ result.raised = ""
    /\ \E k \in DOMAIN result.examined :
           LET s == result.examined[k].isite + 1
               pairs == result.examined[k].pairs
           IN  /\ Len(self.list_neighsite[s]) >= 3
               /\ \E m \in DOMAIN pairs :
                      /\ self.list_neighisite[s][pairs[m][1] + 1]
                             = self.list_neighisite[s][pairs[m][2] + 1]
                      /\ self.list_neighsite[s][pairs[m][1] + 1]
                             /= self.list_neighsite[s][pairs[m][2] + 1]

\* get_info_icohps_between_neighbors has returned
BetweenReturned ==
    result.call = "get_info_icohps_between_neighbors" /\ result.raised = ""

\* the pairs of neighbours that the call examined: entry k of examined, pair i
PairsExamined ==
    UNION { {k} \X DOMAIN result.examined[k].pairs : k \in DOMAIN result.examined }

\* the neighbour at position pos (0 or 1) of the examined pair p, and its atom
PairSite(p, pos) ==
    LET ex == result.examined[p[1]]
    IN  self.list_neighsite[ex.isite + 1][ex.pairs[p[2]][pos + 1] + 1]

PairAtom(p, pos) ==
    LET ex == result.examined[p[1]]
    IN  self.list_neighisite[ex.isite + 1][ex.pairs[p[2]][pos + 1] + 1]

PairCounted(p) == result.examined[p[1]].counted[p[2]]

\* the componentwise floor of the fractional coordinates rounded to 4 decimals:
\* x / a + 0.00005, floored
Offset(site) == (site.x + args.structure.a \div 20000) \div args.structure.a

\* the record is inside the bounds stored in the object and not longer than 6.0
WithinStoredBounds(b) ==
    /\ b._length <= 600000
    /\ self.lowerlimit.k = "num" => self.lowerlimit.v <= b.summed_icohp * 100
    /\ self.upperlimit.k = "num" => b.summed_icohp * 100 <= self.upperlimit.v

RecordEnds(b) == {b._atom1.tail - 1, b._atom2.tail - 1}

\* C21: for an examined pair of neighbours of two different atoms, a record
\* inside the stored bounds is counted for the pair exactly when it joins the
\* two atoms and its translation is offset(neighbour of the lower atom index)
\* minus offset(neighbour of the higher atom index); it is counted once, and a
\* record with the negated translation is not counted.
C21_DistinctAtomsExactTranslation ==
    BetweenReturned =>
        \A p \in PairsExamined :
            LET a1 == PairAtom(p, 0)
                a2 == PairAtom(p, 1)
                lo == IF a1 < a2 THEN PairSite(p, 0) ELSE PairSite(p, 1)
                hi == IF a1 < a2 THEN PairSite(p, 1) ELSE PairSite(p, 0)
                t == Offset(lo) - Offset(hi)
                counted == PairCounted(p)
            IN  a1 /= a2 =>
                  /\ \A label \in DOMAIN args.icohplist :
                        LET b == args.icohplist[label]
                        IN  WithinStoredBounds(b) =>
                              ((label \in Range(counted)) <=>
                                  /\ RecordEnds(b) = {a1, a2}
                                  /\ b._translation = <<t, 0, 0>>)
                  /\ \A i, j \in DOMAIN counted : i /= j => counted[i] /= counted[j]

\* a pair of different atoms at offsets that differ, for which a record with the
\* negated translation is passed over, and a pair with a record counted
C21_Witness ==
    /\ BetweenReturned
    /\ \E p \in PairsExamined :
          /\ PairAtom(p, 0) /= PairAtom(p, 1)
          /\ PairCounted(p) = <<>>
          /\ \E label \in DOMAIN args.icohplist :
                LET b == args.icohplist[label]
                    t == Offset(PairSite(p, 0)) - Offset(PairSite(p, 1))
                IN  /\ RecordEnds(b) = {PairAtom(p, 0), PairAtom(p, 1)}
                    /\ WithinStoredBounds(b)
                    /\ t /= 0
                    /\ b._translation \in {<<t, 0, 0>>, <<-t, 0, 0>>}
    /\ \E p \in PairsExamined :
          PairAtom(p, 0) /= PairAtom(p, 1) /\ PairCounted(p) /= <<>>

\* the labels, in the order of the collection, of the records of atom a with
\* itself inside the stored bounds whose translation is <<t, 0, 0>> or its negation
SelfRecords(a, t) ==
    SelectSeq([k \in 1..Len(args.icohplist) |-> k],
              LAMBDA k : LET b == args.icohplist[k]
                         IN  /\ RecordEnds(b) = {a}
                             /\ WithinStoredBounds(b)
                             /\ b._translation \in {<<t, 0, 0>>, <<-t, 0, 0>>})

\* C22: for an examined pair of two images of the same atom, the records of
\* the atom with itself whose translation is offset(i) - offset(j) or its
\* negation match, and the pair counts the first of them in the order of the
\* records and no other; it counts nothing when there is none.
C22_SameAtomFirstMatchOnly ==
    BetweenReturned =>
        \A p \in PairsExamined :
            LET a1 == PairAtom(p, 0)
                t == Offset(PairSite(p, 0)) - Offset(PairSite(p, 1))
                matching == SelfRecords(a1, t)
            IN  a1 = PairAtom(p, 1) =>
                    PairCounted(p) = IF matching = <<>> THEN <<>> ELSE <<matching[1]>>

\* a pair of images of one atom with two matching records, the one counted
\* being matched by its negated translation
C22_Witness ==
    /\ BetweenReturned
    /\ \E p \in PairsExamined :
          LET t == Offset(PairSite(p, 0)) - Offset(PairSite(p, 1))
          IN  /\ PairAtom(p, 0) = PairAtom(p, 1)
              /\ Len(SelfRecords(PairAtom(p, 0), t)) >= 2
              /\ Len(PairCounted(p)) = 1
              /\ args.icohplist[PairCounted(p)[1]]._translation = <<-t, 0, 0>>
              /\ t /= 0

PairQueried(p) == result.examined[p[1]].queried[p[2]]

\* the records that the lookup of the object returns for the site
RecordsOfSite(site) ==
    get_icohp_dict_of_site(args.icohplist, site, 600000, self.lowerlimit,
                           self.upperlimit, args.only_bonds_to)

\* the labels among those given of the records that join the atoms of the pair
JoiningPair(labels, p) ==
    { label \in Range(labels) :
        RecordEnds(args.icohplist[label]) = {PairAtom(p, 0), PairAtom(p, 1)} }

LowerAtom(p) == IF PairAtom(p, 1) < PairAtom(p, 0) THEN PairAtom(p, 1) ELSE PairAtom(p, 0)

\* C23 (as claimed): the records considered for an examined pair are those of
\* the lookup for the neighbour with the lower atom index, whichever of the two
\* neighbours comes first in the neighbour list.
C23_QueriedLowerIndex ==
    BetweenReturned =>
        \A p \in PairsExamined :
            /\ PairQueried(p) = LowerAtom(p)
            /\ Range(PairCounted(p)) \subseteq Range(RecordsOfSite(LowerAtom(p)))

\* C23 (amended): the records considered for an examined pair are those of the
\* lookup for the neighbour that comes first in the neighbour list, with
\* only_bonds_to applied from that site; the records among them that join the
\* two atoms of the pair are the same as in the lookup for the neighbour with
\* the lower atom index, so the records counted are among both.
C23_QueriedFirstNeighbour ==
    BetweenReturned =>
        \A p \in PairsExamined :
            /\ PairQueried(p) = PairAtom(p, 0)
            /\ Range(PairCounted(p)) \subseteq JoiningPair(RecordsOfSite(PairAtom(p, 0)), p)
            /\ JoiningPair(RecordsOfSite(PairAtom(p, 0)), p)
                   = JoiningPair(RecordsOfSite(LowerAtom(p)), p)

\* with only_bonds_to given, a pair whose first neighbour has the higher atom
\* index, whose two lookups differ, and which counts a record
C23_Witness ==
    /\ BetweenReturned
    /\ args.only_bonds_to.k = "list"
    /\ \E p \in PairsExamined :
          /\ PairAtom(p, 1) < PairAtom(p, 0)
          /\ RecordsOfSite(PairAtom(p, 0)) /= RecordsOfSite(PairAtom(p, 1))
          /\ PairCounted(p) /= <<>>

\* C24 (as claimed): when the neighbour handed to from_Lobster is off the
\* nearest image of its in-cell representative by more than 1e-6 of the
\* lattice, from_Lobster raises and returns no image cell.
C24_OffImageRaises ==
    pc = "returned" =>
        LET st == args.structure
            neighbor == args.list_neighsite[1][1]
            rep == st.x[args.list_neighisite[1][1] + 1]
        IN  (neighbor.x - rep) % st.a /= 0 => result.raised /= ""

SlotLists ==
    {"list_neighsite", "list_neighisite", "list_keys", "list_lengths", "list_icohps",
     "list_coords"}

\* the slot of each of the six lists for the site, resolved on its own from the
\* inputs that the loop only reads: records, structure, valences, limits
SlotsOf(site) ==
    LET f == FindEnvironment(args, self.valences.v, limit[1], limit[2], site)
    IN  [ list_neighsite |-> f.neighsite, list_neighisite |-> f.neighisite,
          list_keys |-> f.keys, list_lengths |-> f.lengths, list_icohps |-> f.icohps,
          list_coords |-> f.coords ]

\* C25: a pass of the loop over the sites writes the slot of its own site and
\* nothing else: the slots written before keep their values, the records, the
\* structure, the valences and the limits are left as they were, and the new
\* slot is what the site yields on its own from those inputs, whatever was
\* resolved before it; so no order of the passes changes a slot.
C25_PerSiteIndependent ==
    [][ (pc = "find" /\ idx' = idx + 1) =>
          /\ args' = args /\ self' = self /\ limit' = limit
          /\ \A n \in SlotLists :
                /\ Len(env'[n]) = Len(env[n]) + 1
                /\ \A s \in 1..Len(env[n]) : env'[n][s] = env[n][s]
                /\ env'[n][idx + 1] = SlotsOf(idx)[n] ]_vars

\* the pass of a later site has taken neighbours and left candidates in its
\* pool while an earlier site holds neighbours and records of its own
C25_Witness ==
    /\ pc = "find"
    /\ idx >= 2
    /\ env.list_neighsite[idx] /= <<>>
    /\ pool_left[idx] /= <<>>
    /\ env.list_neighsite[idx - 1] /= <<>>
    /\ env.list_keys[idx - 1] /= env.list_keys[idx]

\* the bounds given to the constructor
SuppliedLimits == IF args.limits.k = "None" THEN <<None, None>> ELSE args.limits.v

\* the record is not longer than 6.0 and inside the bounds given to the constructor
WithinSuppliedLimits(b) ==
    /\ b._length <= 600000
    /\ SuppliedLimits[1].k = "num" => SuppliedLimits[1].v <= b.summed_icohp * 100
    /\ SuppliedLimits[2].k = "num" => b.summed_icohp * 100 <= SuppliedLimits[2].v

\* the record is inside the window that resolved the neighbours
WithinWindow(b) ==
    /\ limit[1].k = "num" => limit[1].v <= b.summed_icohp * 100
    /\ limit[2].k = "num" => b.summed_icohp * 100 <= limit[2].v

\* the records that fit the examined pair by their atoms and their translation
FittingPair(p) ==
    LET a1 == PairAtom(p, 0)
        a2 == PairAtom(p, 1)
        t == Offset(PairSite(p, 0)) - Offset(PairSite(p, 1))
        wanted == IF a1 = a2 THEN {<<t, 0, 0>>, <<-t, 0, 0>>}
                  ELSE IF a1 < a2 THEN {<<t, 0, 0>>} ELSE {<<-t, 0, 0>>}
    IN  { label \in DOMAIN args.icohplist :
            /\ RecordEnds(args.icohplist[label]) = {a1, a2}
            /\ args.icohplist[label]._translation \in wanted }

\* C26: self.lowerlimit and self.upperlimit stay as given to the constructor
\* (both None when limits was omitted) through the evaluation and the queries,
\* never the window derived from the extremum; and for every pair that
\* get_info_icohps_between_neighbors examines, a fitting record is counted if
\* there is one inside the bounds given to the constructor, and only such
\* records are counted, whether or not they are inside the derived window.
C26_WindowNotStored ==
    /\ "lowerlimit" \in DOMAIN self =>
          self.lowerlimit = SuppliedLimits[1] /\ self.upperlimit = SuppliedLimits[2]
    /\ BetweenReturned =>
          \A p \in PairsExamined :
              LET eligible == { label \in FittingPair(p) :
                                  WithinSuppliedLimits(args.icohplist[label]) }
              IN  /\ Range(PairCounted(p)) \subseteq eligible
                  /\ eligible /= {} => PairCounted(p) /= <<>>

\* limits omitted: a finite window resolved the neighbours, and a record
\* outside that window is counted for a pair
C26_Witness ==
    /\ BetweenReturned
    /\ args.limits.k = "None"
    /\ limit[2].k = "num"
    /\ self.upperlimit.k = "None"
    /\ \E p \in PairsExamined : \E i \in DOMAIN PairCounted(p) :
          ~WithinWindow(args.icohplist[PairCounted(p)[i]])

\* get_info_icohps_to_neighbors has returned
ToReturned == result.call = "get_info_icohps_to_neighbors" /\ result.raised = ""

\* the sites the returned call was about
SitesOfCall ==
    Range(QueriedSites(args.structure, self.valences, result.input.isites,
                       result.input.onlycation_isites))

\* the concatenation of list[s] over the sites of S from site s on, in site order
RECURSIVE Concatenated(_, _, _)
Concatenated(list, S, s) ==
    IF s > Len(list) THEN <<>>
    ELSE (IF s - 1 \in S THEN list[s] ELSE <<>>) \o Concatenated(list, S, s + 1)

\* C27: get_info_icohps_to_neighbors reports, for the sites it is about, one
\* bond per record of list_keys, matched to a geometric site or not: the labels
\* are the entries of list_keys of those sites, each site appears in
\* central_isites once per record of its list_keys, and n_bonds is the sum of
\* the lengths of list_keys (not of list_neighsite) over those sites.
C27_OneBondPerSelectedRecord ==
    ToReturned =>
        LET v == result.value
        IN  /\ v.labels = Concatenated(self.list_keys, SitesOfCall, 1)
            /\ v.n_bonds = Len(Concatenated(self.list_keys, SitesOfCall, 1))
            /\ \A s \in SitesOfCall :
                  Cardinality({ i \in DOMAIN v.central_isites.v : v.central_isites.v[i] = s })
                      = Len(self.list_keys[s + 1])

\* more bonds are reported than neighbours were resolved for the sites
C27_Witness ==
    /\ ToReturned
    /\ result.value.n_bonds > Len(Concatenated(self.list_neighsite, SitesOfCall, 1))
    /\ Len(Concatenated(self.list_neighsite, SitesOfCall, 1)) >= 1

\* the members of the set of integers S in ascending order
RECURSIVE Ascending(_)
Ascending(S) ==
    IF S = {} THEN <<>>
    ELSE LET least == CHOOSE m \in S : \A w \in S : m <= w
         IN  <<least>> \o Ascending(S \ {least})

\* C28: what get_info_icohps_to_neighbors returns for a list isites is what it
\* returns for the sites of the list taken once each in ascending order, so
\* neither the order of isites nor a repetition in it changes the result, and
\* central_isites never decreases.
C28_IsitesAsSet ==
    (ToReturned /\ result.input.isites.k = "list") =>
        LET canonical == List(Ascending(Range(result.input.isites.v)))
            c == result.value.central_isites.v
        IN  /\ result.value =
                  get_info_icohps_to_neighbors(self, args, canonical,
                                               result.input.onlycation_isites).value
            /\ \A i, j \in DOMAIN c : i < j => c[i] <= c[j]

\* isites lists a site twice and out of order; both of its sites have bonds
C28_Witness ==
    /\ ToReturned
    /\ result.input.isites.k = "list"
    /\ LET l == result.input.isites.v
           c == result.value.central_isites.v
       IN  /\ \E i, j \in DOMAIN l : i < j /\ l[i] = l[j]
           /\ \E i, j \in DOMAIN l : i < j /\ l[i] > l[j]
           /\ \A i \in DOMAIN l : l[i] \in Range(c)

\* the positions of list_keys of the site at position s that hold a record of
\* the site with itself
SelfEntries(s) ==
    { p \in DOMAIN env.list_keys[s] :
        RecordEnds(args.icohplist[env.list_keys[s][p]]) = {s - 1} }

\* the resolved neighbours of the site at position s that are its own images
\* at a distance within the tolerance of the length L
SelfImagesAt(s, L) ==
    { i \in DOMAIN env.list_neighsite[s] :
        /\ env.list_neighisite[s][i] = s - 1
        /\ WithinTolerance(L, Abs(env.list_neighsite[s][i].x - args.structure.x[s])) }

\* C29: a record is entered at most once in the lists of a site, also when both
\* of its atoms are that site; under condition 0 a candidate record of the site
\* with itself is entered exactly once; and the images of the site resolved at
\* the distance of such a record are no more than the entered records of that
\* length, so one record resolves one of the two images at its distance.
C29_SelfBondOnce ==
    \A s \in JustProcessed :
        LET keys == env.list_keys[s]
        IN  /\ \A p, q \in DOMAIN keys : p /= q => keys[p] /= keys[q]
            /\ args.additional_condition = 0 =>
                  \A k \in Range(CandidatesOf(s)) :
                      RecordEnds(args.icohplist[k]) = {s - 1} =>
                          Cardinality({ p \in DOMAIN keys : keys[p] = k }) = 1
            /\ \A p \in SelfEntries(s) :
                  LET L == env.list_lengths[s][p]
                  IN  Cardinality(SelfImagesAt(s, L))
                          <= Cardinality({ q \in SelfEntries(s) :
                                             WithinTolerance(L, env.list_lengths[s][q])
                                             \/ WithinTolerance(env.list_lengths[s][q], L) })

\* under a condition on the valences, a record of the site with itself is
\* entered and one image of the site is resolved at its distance, the image on
\* the other side at the same distance is not
C29_Witness ==
    /\ args.additional_condition \in {5, 6}
    /\ \E s \in JustProcessed : \E p \in SelfEntries(s) :
          /\ Cardinality(SelfEntries(s)) = 1
          /\ Cardinality(SelfImagesAt(s, env.list_lengths[s][p])) = 1
          /\ env.list_lengths[s][p] = args.structure.a

\* the limits were derived from the extremum of the records that pass the condition
AdaptedWindow ==
    /\ LimitsSelected
    /\ args.adapt_extremum_to_add_cond
    /\ args.additional_condition /= 0

\* the finite bound of the window (1e-4 eV) that the same collection, percentage
\* and noise_cutoff give when the extremum is taken over the whole collection
UnadaptedBound ==
    LET strengths == { args.icohplist[k].summed_icohp : k \in DOMAIN args.icohplist }
        least == CHOOSE m \in strengths : \A w \in strengths : m <= w
        most == CHOOSE m \in strengths : \A w \in strengths : m >= w
        nc == args.noise_cutoff
    IN  IF ~args.are_coops /\ ~args.are_cobis
        THEN IF nc.k = "num" /\ -nc.v < least * args.perc_strength_icohp
             THEN -nc.v ELSE least * args.perc_strength_icohp
        ELSE IF nc.k = "num" /\ nc.v > most * args.perc_strength_icohp
             THEN nc.v ELSE most * args.perc_strength_icohp

\* C30: with a percentage >= 0, a window derived from the extremum of the
\* records passing the condition is never narrower than the window derived
\* from the extremum of the whole collection: for ICOHPs its upper limit is >=
\* the unadapted upper limit, for ICOOPs and ICOBIs its lower limit is <= the
\* unadapted lower limit.
C30_AdaptingNeverNarrows ==
    (AdaptedWindow /\ args.perc_strength_icohp >= 0) =>
        IF ~args.are_coops /\ ~args.are_cobis
        THEN limit[1] = NegInf /\ limit[2].k = "num" /\ limit[2].v >= UnadaptedBound
        ELSE limit[2] = PosInf /\ limit[1].k = "num" /\ limit[1].v <= UnadaptedBound

\* the strongest record does not pass the condition and the adapted ICOHP
\* window is strictly wider than the unadapted one
C30_Witness ==
    /\ AdaptedWindow
    /\ ~args.are_coops /\ ~args.are_cobis
    /\ limit[2].k = "num"
    /\ limit[2].v > UnadaptedBound

====
